---------------------------- MODULE Spec2Model ----------------------------
(***************************************************************************)
(* Model of the agentic tool-orchestration pipeline                        *)
(* (src/lib/streaming/tool-execution.ts, second revision starting at line  *)
(* 661, and the tool planner in src/unnamed/part_005).                     *)
(*                                                                         *)
(* Text is modelled as a sequence of characters (one-character strings),   *)
(* so that trimming, whitespace replacement, joining and template          *)
(* concatenation are computed the way the code computes them.  A fixed     *)
(* phrase that the code never inspects is a single atom of such a          *)
(* sequence.                                                               *)
(***************************************************************************)
EXTENDS Integers, Sequences, FiniteSets, TLC

(***************************************************************************)
(* Bounds of the model.                                                    *)
(***************************************************************************)
MaxNormInvocations == 3   \* length of toolInvocations fed to the normalizer
MaxInvocations == 2       \* length of toolInvocations the planner returns
MaxSteps == 3             \* number of executed steps fed to the summarizer
MaxTokens == 2            \* number of tokens of a text fed to the detector
MaxCalls == 2             \* calls of the base URL functions in one run
MaxListTokens == 4        \* number of tokens of a domain list given as a string
MaxItems == 2             \* number of items of a domain list given as an array
MaxResultSteps == 2       \* number of steps of a summary whose results vary

(***************************************************************************)
(* Text helpers (String.prototype.trim, replace(/\s+/g, '-'), join,        *)
(* template literals with numbers).                                        *)
(***************************************************************************)
WhitespaceChars == {" ", "\n", "\t"}

IsSpace(c) == c \in WhitespaceChars

RECURSIVE TrimStart(_)
TrimStart(s) ==
  IF s = <<>> THEN <<>>
  ELSE IF IsSpace(Head(s)) THEN TrimStart(Tail(s)) ELSE s

RECURSIVE TrimEnd(_)
TrimEnd(s) ==
  IF s = <<>> THEN <<>>
  ELSE IF IsSpace(s[Len(s)]) THEN TrimEnd(SubSeq(s, 1, Len(s) - 1)) ELSE s

Trim(s) == TrimEnd(TrimStart(s))

\* s.replace(/\s+/g, '-'): every maximal run of whitespace becomes one '-'
RECURSIVE ReplaceWhitespaceRuns(_)
ReplaceWhitespaceRuns(s) ==
  IF s = <<>> THEN <<>>
  ELSE IF IsSpace(Head(s))
       THEN <<"-">> \o ReplaceWhitespaceRuns(TrimStart(s))
       ELSE <<Head(s)>> \o ReplaceWhitespaceRuns(Tail(s))

Digit(d) == CASE d = 0 -> "0" [] d = 1 -> "1" [] d = 2 -> "2" [] d = 3 -> "3"
              [] d = 4 -> "4" [] d = 5 -> "5" [] d = 6 -> "6" [] d = 7 -> "7"
              [] d = 8 -> "8" [] d = 9 -> "9"

\* decimal rendering of a non-negative integer inside a template literal
RECURSIVE NumToStr(_)
NumToStr(n) ==
  IF n < 10 THEN <<Digit(n)>> ELSE NumToStr(n \div 10) \o <<Digit(n % 10)>>

\* JavaScript truthiness of a string: only the empty string is falsy
Truthy(s) == s # <<>>

(***************************************************************************)
(* Parameter maps: Record<string, any>.  A map is a function from the keys *)
(* present to values; a value is null, undefined or a string.              *)
(***************************************************************************)
NullValue == [kind |-> "null"]
UndefinedValue == [kind |-> "undefined"]
StringValue(s) == [kind |-> "string", v |-> s]

EmptyRecord == [k \in {} |-> NullValue]

\* Object.fromEntries(Object.entries(p).filter(([, v]) => v !== undefined && v !== null))
normalizeInvocationParameters(parameters) ==
  LET kept == {k \in DOMAIN parameters :
                 parameters[k] # UndefinedValue /\ parameters[k] # NullValue}
  IN [k \in kept |-> parameters[k]]

(***************************************************************************)
(* Plan normalizer (src/unnamed/part_005).                                 *)
(***************************************************************************)
DEFAULT_FINAL_RESPONSE_INSTRUCTION ==
  <<"Respond to the original user request using the collected information.">>

\* seenIds.get(baseId) ?? 0
SeenCount(seenIds, baseId) ==
  IF baseId \in DOMAIN seenIds THEN seenIds[baseId] ELSE 0

\* seenIds.set(baseId, n)
SeenSet(seenIds, baseId, n) ==
  [k \in DOMAIN seenIds \cup {baseId} |-> IF k = baseId THEN n ELSE seenIds[k]]

\* variant: the suffix counts the earlier occurrences only
normalizeInvocationId_CountsEarlier(rawId, index, seenIds) ==
  LET trimmed == Trim(rawId)
      fallbackId == <<"s", "t", "e", "p", "-">> \o NumToStr(index)
      baseId == IF Len(trimmed) > 0 THEN ReplaceWhitespaceRuns(trimmed)
                ELSE fallbackId
      occurrence == SeenCount(seenIds, baseId)
  IN [id |-> IF occurrence = 0 THEN baseId
             ELSE baseId \o <<"-">> \o NumToStr(occurrence),
      seenIds |-> SeenSet(seenIds, baseId, occurrence + 1)]

\* the id returned together with the updated seenIds map
normalizeInvocationId(rawId, index, seenIds) ==
  LET trimmed == Trim(rawId)
      fallbackId == <<"s", "t", "e", "p", "-">> \o NumToStr(index)
      baseId == IF Len(trimmed) > 0 THEN ReplaceWhitespaceRuns(trimmed)
                ELSE fallbackId
      occurrence == SeenCount(seenIds, baseId)
  IN [id |-> IF occurrence = 0 THEN baseId
             ELSE baseId \o <<"-">> \o NumToStr(occurrence + 1),
      seenIds |-> SeenSet(seenIds, baseId, occurrence + 1)]

\* the .map(...) over toolInvocations, threading seenIds in input order
RECURSIVE MapInvocations(_, _, _)
MapInvocations(invocations, index, seenIds) ==
  IF index > Len(invocations) THEN <<>>
  ELSE LET invocation == invocations[index]
           r == normalizeInvocationId(invocation.id, index, seenIds)
       IN <<[id |-> r.id,
             tool |-> invocation.tool,
             description |-> Trim(invocation.description),
             parameters |-> normalizeInvocationParameters(invocation.parameters)]>>
          \o MapInvocations(invocations, index + 1, r.seenIds)

\* variant: an invocation without description is dropped whatever its tool
KeepInvocation_DescribedOnly(invocation) ==
  Len(invocation.description) > 0

KeepInvocation(invocation) ==
  Len(invocation.description) > 0 \/ invocation.tool = "none"

KeepPlanStep(step) == Len(step.step) > 0 /\ Len(step.detail) > 0

TrimPlanStep(step) == [step |-> Trim(step.step), detail |-> Trim(step.detail)]

normalizeToolPlan(plan) ==
  LET normalizedPlan == SelectSeq([i \in 1..Len(plan.plan) |-> TrimPlanStep(plan.plan[i])],
                                 KeepPlanStep)
      normalizedInvocations ==
        SelectSeq(MapInvocations(plan.toolInvocations, 1, EmptyRecord),
                  KeepInvocation)
      finalResponseInstruction == Trim(plan.finalResponseInstruction)
  IN [plan |-> normalizedPlan,
      toolInvocations |-> normalizedInvocations,
      finalResponseInstruction |->
        IF Len(finalResponseInstruction) > 0 THEN finalResponseInstruction
        ELSE DEFAULT_FINAL_RESPONSE_INSTRUCTION]


(***************************************************************************)
(* Language detection (detectLanguageFromText).  A character outside ASCII *)
(* is written as the atom "U+XXXX"; CodePoint gives the UTF-16 code unit   *)
(* the regular expressions of the code range over.                         *)
(***************************************************************************)
CodePoint(c) ==
  CASE c = "a" -> 97
    [] c = "b" -> 98
    [] c = "c" -> 99
    [] c = "d" -> 100
    [] c = "e" -> 101
    [] c = "f" -> 102
    [] c = "g" -> 103
    [] c = "h" -> 104
    [] c = "i" -> 105
    [] c = "j" -> 106
    [] c = "k" -> 107
    [] c = "l" -> 108
    [] c = "m" -> 109
    [] c = "n" -> 110
    [] c = "o" -> 111
    [] c = "p" -> 112
    [] c = "q" -> 113
    [] c = "r" -> 114
    [] c = "s" -> 115
    [] c = "t" -> 116
    [] c = "u" -> 117
    [] c = "v" -> 118
    [] c = "w" -> 119
    [] c = "x" -> 120
    [] c = "y" -> 121
    [] c = "z" -> 122
    [] c = "E" -> 69
    [] c = "L" -> 76
    [] c = "A" -> 65
    [] c = " " -> 32
    [] c = "\n" -> 10
    [] c = "\t" -> 9
    [] c = "U+044F" -> 1103
    [] c = "U+0436" -> 1078
    [] c = "U+4E2D" -> 20013
    [] c = "U+3042" -> 12354
    [] c = "U+30AB" -> 12459
    [] c = "U+D55C" -> 54620
    [] c = "U+0639" -> 1593
    [] c = "U+00E3" -> 227
    [] c = "U+00F5" -> 245
    [] c = "U+00E7" -> 231
    [] c = "U+00E9" -> 233
    [] c = "U+00E0" -> 224
    [] c = "U+00EC" -> 236
    [] c = "U+00E1" -> 225
    [] c = "U+00FC" -> 252
    [] c = "U+0153" -> 339
    [] c = "U+00C3" -> 195
    [] c = "U+00C9" -> 201

CodePoints(text) == [i \in 1..Len(text) |-> CodePoint(text[i])]

\* Canonicalize of a case-insensitive regular expression without the u flag:
\* the upper-case form of the code unit
Canonicalize(cp) ==
  IF cp \in 97..122 THEN cp - 32
  ELSE IF cp \in 224..254 /\ cp # 247 THEN cp - 32
  ELSE IF cp = 339 THEN 338
  ELSE IF cp = 255 THEN 376
  ELSE cp

\* /[\uLO-\uHI]/.test(text)
HasInRange(cps, lo, hi) == \E i \in 1..Len(cps) : cps[i] >= lo /\ cps[i] <= hi

\* /[...]/i.test(text)
HasAnyOf(cps, chars) ==
  LET folded == {Canonicalize(x) : x \in chars}
  IN \E i \in 1..Len(cps) : Canonicalize(cps[i]) \in folded

MatchesAt(cps, word, p) ==
  /\ p >= 1
  /\ p + Len(word) - 1 <= Len(cps)
  /\ \A k \in 1..Len(word) :
       Canonicalize(cps[p + k - 1]) = Canonicalize(word[k])

\* /word/i.test(text)
HasSubstring(cps, word) == \E p \in 1..Len(cps) : MatchesAt(cps, word, p)

\* \w
IsWordChar(cp) == cp \in (48..57) \cup (65..90) \cup {95} \cup (97..122)

\* \b between positions p - 1 and p
BoundaryAt(cps, p) ==
  LET left == p - 1 >= 1 /\ IsWordChar(cps[p - 1])
      right == p <= Len(cps) /\ IsWordChar(cps[p])
  IN left # right

\* /(?:\b(?:w1|w2|...)\b)/i.test(text)
HasWord(cps, words) ==
  \E word \in words : \E p \in 1..Len(cps) :
    /\ MatchesAt(cps, word, p)
    /\ BoundaryAt(cps, p)
    /\ BoundaryAt(cps, p + Len(word))

\* n\u00E3o|nao|esta|est\u00E1|para|com|dos|das|nos|nas|uma|umas|num|numa|ser\u00E1|serao
PortugueseWords ==
  { <<110, 227, 111>>,
    <<110, 97, 111>>,
    <<101, 115, 116, 97>>,
    <<101, 115, 116, 225>>,
    <<112, 97, 114, 97>>,
    <<99, 111, 109>>,
    <<100, 111, 115>>,
    <<100, 97, 115>>,
    <<110, 111, 115>>,
    <<110, 97, 115>>,
    <<117, 109, 97>>,
    <<117, 109, 97, 115>>,
    <<110, 117, 109>>,
    <<110, 117, 109, 97>>,
    <<115, 101, 114, 225>>,
    <<115, 101, 114, 97, 111>> }

\* il|lo|la|gli|le|uno|una|degli|delle|per|con|non|sono|nel|nella
ItalianWords ==
  { <<105, 108>>,
    <<108, 111>>,
    <<108, 97>>,
    <<103, 108, 105>>,
    <<108, 101>>,
    <<117, 110, 111>>,
    <<117, 110, 97>>,
    <<100, 101, 103, 108, 105>>,
    <<100, 101, 108, 108, 101>>,
    <<112, 101, 114>>,
    <<99, 111, 110>>,
    <<110, 111, 110>>,
    <<115, 111, 110, 111>>,
    <<110, 101, 108>>,
    <<110, 101, 108, 108, 97>> }

\* le|la|les|des|une|un|pour|avec|sans|est|qui|pas|dans|sur
FrenchWords ==
  { <<108, 101>>,
    <<108, 97>>,
    <<108, 101, 115>>,
    <<100, 101, 115>>,
    <<117, 110, 101>>,
    <<117, 110>>,
    <<112, 111, 117, 114>>,
    <<97, 118, 101, 99>>,
    <<115, 97, 110, 115>>,
    <<101, 115, 116>>,
    <<113, 117, 105>>,
    <<112, 97, 115>>,
    <<100, 97, 110, 115>>,
    <<115, 117, 114>> }

\* der|die|das|und|nicht|mit|ein|eine|auf|f\u00FCr|zum|zur|den|dem
GermanWords ==
  { <<100, 101, 114>>,
    <<100, 105, 101>>,
    <<100, 97, 115>>,
    <<117, 110, 100>>,
    <<110, 105, 99, 104, 116>>,
    <<109, 105, 116>>,
    <<101, 105, 110>>,
    <<101, 105, 110, 101>>,
    <<97, 117, 102>>,
    <<102, 252, 114>>,
    <<122, 117, 109>>,
    <<122, 117, 114>>,
    <<100, 101, 110>>,
    <<100, 101, 109>> }

\* el|la|los|las|un|una|de|que|para|con|por|del|al|y|en|se
SpanishWords ==
  { <<101, 108>>,
    <<108, 97>>,
    <<108, 111, 115>>,
    <<108, 97, 115>>,
    <<117, 110>>,
    <<117, 110, 97>>,
    <<100, 101>>,
    <<113, 117, 101>>,
    <<112, 97, 114, 97>>,
    <<99, 111, 110>>,
    <<112, 111, 114>>,
    <<100, 101, 108>>,
    <<97, 108>>,
    <<121>>,
    <<101, 110>>,
    <<115, 101>> }

\* /[U+00E3U+00F5]/i
PortugueseChars == {227, 245}

\* /U+00E7U+00E3o/i and /U+00E7U+00F5es/i
PortugueseEndings == { <<231, 227, 111>>, <<231, 245, 101, 115>> }

\* /[U+0153U+00E6]/i and /[U+00E0U+00E2U+00E7U+00E9U+00E8U+00EAU+00EBU+00EEU+00EFU+00F4U+00FBU+00F9U+00FCU+00FF]/i
FrenchChars == {339, 230, 224, 226, 231, 233, 232, 234, 235, 238, 239, 244, 251, 249, 252, 255}

\* /[U+00E0U+00E8U+00ECU+00F2U+00F9]/i
ItalianChars == {224, 232, 236, 242, 249}

HasCyrillic(cps) == HasInRange(cps, 1024, 1279)      \* U+0400-U+04FF
HasCJK(cps) == HasInRange(cps, 19968, 40959)         \* U+4E00-U+9FFF
HasKana(cps) == HasInRange(cps, 12352, 12543)        \* U+3040-U+30FF
HasHangul(cps) == HasInRange(cps, 44032, 55203)      \* U+AC00-U+D7A3
HasArabic(cps) == HasInRange(cps, 1536, 1791)        \* U+0600-U+06FF

\* /^[\u0000-\u007F]*$/.test(text)
AsciiOnly(cps) == \A i \in 1..Len(cps) : cps[i] <= 127

HasPortugueseDiacritic(cps) ==
  HasAnyOf(cps, PortugueseChars)
  \/ \E ending \in PortugueseEndings : HasSubstring(cps, ending)

SupportedLanguages ==
  {"en", "ru", "es", "ja", "ko", "zh", "fr", "de", "it", "pt", "ar"}

\* variant: the word checks come before the script checks
detectLanguageFromText_WordsFirst(text) ==
  LET cps == CodePoints(text) IN
  IF ~Truthy(text) THEN "en"
  ELSE IF HasWord(cps, PortugueseWords) THEN "pt"
  ELSE IF HasWord(cps, ItalianWords) THEN "it"
  ELSE IF HasWord(cps, FrenchWords) THEN "fr"
  ELSE IF HasWord(cps, GermanWords) THEN "de"
  ELSE IF HasWord(cps, SpanishWords) THEN "es"
  ELSE IF HasCyrillic(cps) THEN "ru"
  ELSE IF HasCJK(cps) THEN "zh"
  ELSE IF HasKana(cps) THEN "ja"
  ELSE IF HasHangul(cps) THEN "ko"
  ELSE IF HasArabic(cps) THEN "ar"
  ELSE IF ~AsciiOnly(cps) /\ HasPortugueseDiacritic(cps) THEN "pt"
  ELSE IF ~AsciiOnly(cps) /\ HasAnyOf(cps, FrenchChars) THEN "fr"
  ELSE IF ~AsciiOnly(cps) /\ HasAnyOf(cps, ItalianChars) THEN "it"
  ELSE "en"

detectLanguageFromText(text) ==
  LET cps == CodePoints(text) IN
  IF ~Truthy(text) THEN "en"
  ELSE IF HasCyrillic(cps) THEN "ru"
  ELSE IF HasCJK(cps) THEN "zh"
  ELSE IF HasKana(cps) THEN "ja"
  ELSE IF HasHangul(cps) THEN "ko"
  ELSE IF HasArabic(cps) THEN "ar"
  ELSE IF ~AsciiOnly(cps) /\ HasPortugueseDiacritic(cps) THEN "pt"
  ELSE IF ~AsciiOnly(cps) /\ HasAnyOf(cps, FrenchChars) THEN "fr"
  ELSE IF ~AsciiOnly(cps) /\ HasAnyOf(cps, ItalianChars) THEN "it"
  ELSE IF HasWord(cps, PortugueseWords) THEN "pt"
  ELSE IF HasWord(cps, ItalianWords) THEN "it"
  ELSE IF HasWord(cps, FrenchWords) THEN "fr"
  ELSE IF HasWord(cps, GermanWords) THEN "de"
  ELSE IF HasWord(cps, SpanishWords) THEN "es"
  ELSE "en"

(***************************************************************************)
(* URLs (src/lib/utils/url.ts).  The text of an environment value or of a  *)
(* header is a sequence of tokens: a scheme, "://", a host name, ":", a    *)
(* port, a path, "," and white space; any other token is text no URL       *)
(* contains.  A parsed URL is a record; a text that `new URL` rejects      *)
(* parses to UndefinedValue.                                               *)
(***************************************************************************)
SpecialSchemes == {"http", "https", "HTTPS"}

HostNames ==
  {"example.test", "EXAMPLE.test", "secondary.test", "header.example",
   "localhost", "10.0.0.1"}

Ports == {"80", "443", "3000", "99999"}

Paths == {"/", "/path?q=1"}

\* toLowerCase()
ToLowerCase(token) ==
  CASE token = "EXAMPLE.test" -> "example.test"
    [] token = "HTTPS" -> "https"
    [] token = "HOST" -> "host"
    [] token = "PROTO" -> "proto"
    [] OTHER -> token

LowerText(text) == [i \in 1..Len(text) |-> ToLowerCase(text[i])]

\* a scheme starts with a letter
StartsWithLetter(token) == token # "10.0.0.1"

\* the port a URL keeps: none when it is the default of the scheme, and no
\* URL at all when it is above 65535
DefaultPort(protocol) == IF protocol = "http" THEN "80" ELSE "443"

Url(protocol, hostname, port, pathname) ==
  [kind |-> "url", protocol |-> protocol, hostname |-> hostname,
   port |-> IF port = DefaultPort(protocol) THEN "" ELSE port,
   pathname |-> pathname]

\* a URL of a scheme that is not special: `scheme:path`, with no host
OpaqueUrl(protocol, pathname) ==
  [kind |-> "url", protocol |-> protocol, hostname |-> "", port |-> "",
   pathname |-> pathname]

\* new URL(text): the record, or UndefinedValue where the constructor throws
NewURL(text) ==
  LET s == Trim(text)
      n == Len(s)
  IN IF n >= 3 /\ s[1] \in SpecialSchemes /\ s[2] = "://" /\ s[3] \in HostNames
     THEN LET protocol == ToLowerCase(s[1])
              hostname == ToLowerCase(s[3])
          IN IF n = 3 THEN Url(protocol, hostname, "", "/")
             ELSE IF n = 4 /\ s[4] \in Paths
             THEN Url(protocol, hostname, "", s[4])
             ELSE IF n >= 5 /\ s[4] = ":" /\ s[5] \in Ports /\ s[5] # "99999"
             THEN IF n = 5 THEN Url(protocol, hostname, s[5], "/")
                  ELSE IF n = 6 /\ s[6] \in Paths
                  THEN Url(protocol, hostname, s[5], s[6])
                  ELSE UndefinedValue
             ELSE UndefinedValue
     ELSE IF n = 3 /\ s[1] \in HostNames /\ StartsWithLetter(s[1])
             /\ s[2] = ":" /\ s[3] \in Ports
     THEN OpaqueUrl(ToLowerCase(s[1]), s[3])
     ELSE UndefinedValue

\* url.host
HostOf(url) ==
  IF url.hostname = "" THEN <<>>
  ELSE IF url.port = "" THEN <<url.hostname>>
  ELSE <<url.hostname, ":", url.port>>

\* url.toString()
UrlToString(url) ==
  IF url.hostname = "" THEN <<url.protocol, ":", url.pathname>>
  ELSE <<url.protocol, "://">> \o HostOf(url) \o <<url.pathname>>

\* 'http://localhost:3000'
DEFAULT_BASE_URL == <<"http", "://", "localhost", ":", "3000">>

\* /^[A-Za-z0-9.-]+(:\d+)?$/.test(text)
DOMAIN_ONLY_REGEX(text) ==
  \/ Len(text) = 1 /\ text[1] \in HostNames
  \/ Len(text) = 3 /\ text[1] \in HostNames /\ text[2] = ":"
       /\ text[3] \in Ports

\* text.split(separator)
RECURSIVE Split(_, _)
Split(text, separator) ==
  LET at == {p \in 1..Len(text) : text[p] = separator}
  IN IF at = {} THEN <<text>>
     ELSE LET p == CHOOSE q \in at : \A r \in at : q <= r
          IN <<SubSeq(text, 1, p - 1)>>
               \o Split(SubSeq(text, p + 1, Len(text)), separator)

\* the first entry of a comma-separated header value, trimmed; <<>> stands
\* for undefined
takePrimaryHeaderValue(value) ==
  IF value = <<>> THEN <<>> ELSE Trim(Split(value, ",")[1])

isDefaultPortForProtocol(port, protocol) ==
  /\ protocol # <<>>
  /\ \/ protocol = <<"http">> /\ port = <<"80">>
     \/ protocol = <<"https">> /\ port = <<"443">>

normalisePort(portValue) ==
  LET primary == takePrimaryHeaderValue(portValue)
  IN IF primary = <<>> THEN <<>>
     ELSE IF Len(primary) = 1 /\ primary[1] \in Ports THEN primary
     ELSE <<>>

mergeHostAndPort(hostValue, port, protocol) ==
  LET trimmedHost == Trim(hostValue)
      parsed == NewURL(<<"http", "://">> \o trimmedHost)
  IN IF hostValue = <<>> \/ trimmedHost = <<>> THEN <<>>
     ELSE IF port = <<>> THEN trimmedHost
     ELSE IF parsed # UndefinedValue /\ parsed.port # "" THEN trimmedHost
     ELSE IF parsed = UndefinedValue
             /\ \E p \in 1..Len(trimmedHost) : trimmedHost[p] = ":"
     THEN trimmedHost
     ELSE IF isDefaultPortForProtocol(port, protocol) THEN trimmedHost
     ELSE trimmedHost \o <<":">> \o port

\* parts.join(separator)
RECURSIVE JoinWith(_, _)
JoinWith(parts, separator) ==
  IF parts = <<>> THEN <<>>
  ELSE IF Len(parts) = 1 THEN parts[1]
  ELSE parts[1] \o <<separator>> \o JoinWith(Tail(parts), separator)

\* rawValue.trim().replace(/^"|"$/g, '')
StripQuotes(text) ==
  LET t == Trim(text)
      a == IF t # <<>> /\ t[1] = "\"" THEN Tail(t) ELSE t
  IN IF a # <<>> /\ a[Len(a)] = "\"" THEN SubSeq(a, 1, Len(a) - 1) ELSE a

\* the value of the first `key=value` part of the first entry of the
\* Forwarded header whose key is the one asked for
RECURSIVE ForwardedValue(_, _)
ForwardedValue(parts, key) ==
  IF parts = <<>> THEN <<>>
  ELSE LET pieces == Split(parts[1], "=")
           rawKey == pieces[1]
           rawValueParts == Tail(pieces)
       IN IF rawKey = <<>> \/ rawValueParts = <<>>
          THEN ForwardedValue(Tail(parts), key)
          ELSE IF LowerText(Trim(rawKey)) # <<key>>
          THEN ForwardedValue(Tail(parts), key)
          ELSE StripQuotes(JoinWith(rawValueParts, "="))

parseForwardedPart(forwardedHeader, key) ==
  LET primaryForwarded == takePrimaryHeaderValue(forwardedHeader)
  IN IF primaryForwarded = <<>> THEN <<>>
     ELSE ForwardedValue(Split(primaryForwarded, ";"), key)

\* the host and host name of a request, lower-cased; UndefinedValue when the
\* header value is empty
normaliseHostValue(host) ==
  LET primaryHost == takePrimaryHeaderValue(host)
      parsed == NewURL(<<"http", "://">> \o primaryHost)
      trimmed == LowerText(Trim(primaryHost))
  IN IF primaryHost = <<>> THEN UndefinedValue
     ELSE IF parsed # UndefinedValue
     THEN [kind |-> "host", host |-> LowerText(HostOf(parsed)),
           hostname |-> LowerText(<<parsed.hostname>>)]
     ELSE IF trimmed = <<>> THEN UndefinedValue
     ELSE [kind |-> "host", host |-> trimmed,
           hostname |-> Split(trimmed, ":")[1]]

parseUrlCandidate(candidate) ==
  LET trimmed == Trim(candidate)
  IN IF trimmed = <<>> THEN UndefinedValue
     ELSE IF NewURL(trimmed) # UndefinedValue THEN NewURL(trimmed)
     ELSE IF DOMAIN_ONLY_REGEX(trimmed)
     THEN NewURL(<<"https", "://">> \o trimmed)
     ELSE UndefinedValue

\* process.env.NEXT_PUBLIC_BASE_URL || process.env.BASE_URL || ''
readBaseUrlEnvValue_ServerFirst(env) ==
  IF Truthy(env.BASE_URL) THEN env.BASE_URL
  ELSE IF Truthy(env.NEXT_PUBLIC_BASE_URL) THEN env.NEXT_PUBLIC_BASE_URL
  ELSE <<>>

readBaseUrlEnvValue(env) ==
  IF Truthy(env.NEXT_PUBLIC_BASE_URL) THEN env.NEXT_PUBLIC_BASE_URL
  ELSE IF Truthy(env.BASE_URL) THEN env.BASE_URL
  ELSE <<>>

\* baseUrlEnv.split(',').map(parseUrlCandidate).filter(Boolean)
ParseCandidates(baseUrlEnv) ==
  LET entries == Split(baseUrlEnv, ",")
      parsed == [i \in 1..Len(entries) |-> parseUrlCandidate(entries[i])]
  IN SelectSeq(parsed, LAMBDA url : url # UndefinedValue)

ArrayValue(items) == [kind |-> "array", v |-> items]

\* variant: the memoised candidates are reused whatever the environment holds
readBaseUrlCandidates_AnyEnv(env, cache) ==
  LET baseUrlEnv == readBaseUrlEnvValue(env)
  IN IF cache.cachedBaseUrlCandidates # UndefinedValue
     THEN [value |-> cache.cachedBaseUrlCandidates.v, cache |-> cache]
     ELSE LET parsedCandidates ==
                IF baseUrlEnv = <<>> THEN <<>> ELSE ParseCandidates(baseUrlEnv)
          IN [value |-> parsedCandidates,
              cache |-> [cache EXCEPT
                           !.cachedBaseUrlEnv = StringValue(baseUrlEnv),
                           !.cachedBaseUrlCandidates =
                              ArrayValue(parsedCandidates)]]

\* The memoised reads return the value read and the cache they leave.
readBaseUrlCandidates(env, cache) ==
  LET baseUrlEnv == readBaseUrlEnvValue(env)
  IN IF /\ cache.cachedBaseUrlCandidates # UndefinedValue
        /\ StringValue(baseUrlEnv) = cache.cachedBaseUrlEnv
     THEN [value |-> cache.cachedBaseUrlCandidates.v, cache |-> cache]
     ELSE LET parsedCandidates ==
                IF baseUrlEnv = <<>> THEN <<>> ELSE ParseCandidates(baseUrlEnv)
          IN [value |-> parsedCandidates,
              cache |-> [cache EXCEPT
                           !.cachedBaseUrlEnv = StringValue(baseUrlEnv),
                           !.cachedBaseUrlCandidates =
                              ArrayValue(parsedCandidates)]]

\* process.env.NEXT_PUBLIC_VERCEL_URL || process.env.VERCEL_URL || ''
readDeploymentUrlEnvValue(env) ==
  IF Truthy(env.NEXT_PUBLIC_VERCEL_URL) THEN env.NEXT_PUBLIC_VERCEL_URL
  ELSE IF Truthy(env.VERCEL_URL) THEN env.VERCEL_URL
  ELSE <<>>

\* trimmed.includes('://') ? trimmed : `https://${trimmed}`
DeploymentCandidate(trimmed) ==
  IF \E p \in 1..Len(trimmed) : trimmed[p] = "://" THEN trimmed
  ELSE <<"https", "://">> \o trimmed

readDeploymentUrl(env, cache) ==
  LET deploymentEnv == readDeploymentUrlEnvValue(env)
      trimmed == Trim(deploymentEnv)
      parsed == IF deploymentEnv = <<>> \/ trimmed = <<>> THEN UndefinedValue
                ELSE NewURL(DeploymentCandidate(trimmed))
  IN IF /\ cache.cachedDeploymentUrl # UndefinedValue
        /\ cache.cachedDeploymentUrlEnv = StringValue(deploymentEnv)
     THEN [value |-> cache.cachedDeploymentUrl, cache |-> cache]
     ELSE [value |-> parsed,
           cache |-> [cache EXCEPT
                        !.cachedDeploymentUrlEnv = StringValue(deploymentEnv),
                        !.cachedDeploymentUrl = parsed]]

\* protocol.replace(/:$/, '').trim().toLowerCase()
normaliseProtocol(protocol) ==
  IF protocol = <<>> THEN <<>>
  ELSE LET cut == IF protocol[Len(protocol)] = ":"
                  THEN SubSeq(protocol, 1, Len(protocol) - 1) ELSE protocol
       IN LowerText(Trim(cut))

\* a header list is a function from header names to texts; an absent header
\* reads as <<>>
parseHeaderUrl(headersList, headerName) ==
  LET value == takePrimaryHeaderValue(headersList[headerName])
  IN IF value = <<>> THEN UndefinedValue ELSE NewURL(value)

isLocalHostname(hostname) == hostname \in {<<"localhost">>, <<"10.0.0.1">>}

inferProtocolForHost(host, protocol) ==
  IF protocol # <<>> THEN protocol
  ELSE IF isLocalHostname(host.hostname) THEN <<"http">> ELSE <<"https">>

constructUrlFromHost(host, protocol) ==
  NewURL(inferProtocolForHost(host, protocol) \o <<"://">> \o host.host)

\* value || alternative
OrElse(value, alternative) == IF Truthy(value) THEN value ELSE alternative

\* value ?? alternative
Coalesce(value, alternative) ==
  IF value # UndefinedValue THEN value ELSE alternative

resolveHeaderContext(headersList) ==
  LET directUrl == Coalesce(parseHeaderUrl(headersList, "x-base-url"),
                            parseHeaderUrl(headersList, "x-url"))
      forwardedHeader == headersList["forwarded"]
      forwardedHost == parseForwardedPart(forwardedHeader, "host")
      forwardedProto == parseForwardedPart(forwardedHeader, "proto")
      protocol ==
        OrElse(forwardedProto,
          OrElse(takePrimaryHeaderValue(headersList["x-forwarded-proto"]),
                 takePrimaryHeaderValue(headersList["x-protocol"])))
      normalisedProtocol == normaliseProtocol(protocol)
      forwardedPort == OrElse(normalisePort(headersList["x-forwarded-port"]),
                              normalisePort(headersList["x-port"]))
      rawHost ==
        OrElse(forwardedHost,
          OrElse(takePrimaryHeaderValue(headersList["x-forwarded-host"]),
            OrElse(takePrimaryHeaderValue(headersList["x-host"]),
                   takePrimaryHeaderValue(headersList["host"]))))
      host == OrElse(mergeHostAndPort(rawHost, forwardedPort,
                                      normalisedProtocol), rawHost)
  IN [kind |-> "context", directUrl |-> directUrl,
      host |-> normaliseHostValue(host), protocol |-> normalisedProtocol]

\* new URL(url.toString())
CopyUrl(url) == NewURL(UrlToString(url))

\* candidates.find(candidate => host or hostname equals the context's)
Matches(candidate, contextHost) ==
  \/ LowerText(HostOf(candidate)) = contextHost.host
  \/ LowerText(<<candidate.hostname>>) = contextHost.hostname

FirstMatch(candidates, contextHost) ==
  LET at == {i \in 1..Len(candidates) : Matches(candidates[i], contextHost)}
  IN IF at = {} THEN UndefinedValue
     ELSE candidates[CHOOSE i \in at : \A j \in at : i <= j]

\* variant: the explicit header URL wins over a matching candidate
resolveUrlFromContext_DirectFirst(context, candidates) ==
  IF context = UndefinedValue THEN UndefinedValue
  ELSE LET contextHost == context.host
           match == IF contextHost # UndefinedValue /\ Len(candidates) > 0
                    THEN FirstMatch(candidates, contextHost)
                    ELSE UndefinedValue
       IN IF context.directUrl # UndefinedValue THEN context.directUrl
          ELSE IF match # UndefinedValue THEN CopyUrl(match)
          ELSE IF contextHost # UndefinedValue
          THEN constructUrlFromHost(contextHost, context.protocol)
          ELSE UndefinedValue

resolveUrlFromContext(context, candidates) ==
  IF context = UndefinedValue THEN UndefinedValue
  ELSE LET contextHost == context.host
           match == IF contextHost # UndefinedValue /\ Len(candidates) > 0
                    THEN FirstMatch(candidates, contextHost)
                    ELSE UndefinedValue
       IN IF match # UndefinedValue THEN CopyUrl(match)
          ELSE Coalesce(context.directUrl,
                 IF contextHost # UndefinedValue
                 THEN constructUrlFromHost(contextHost, context.protocol)
                 ELSE UndefinedValue)

\* phase === 'phase-production-build' || phase === 'phase-export'
isStaticGenerationPhase(env) ==
  env.NEXT_PHASE \in {"phase-production-build", "phase-export"}

\* The caller's headers: none, a promise that rejects, or a header list.
NoHeaders == UndefinedValue

RejectedHeaders == [kind |-> "rejected"]

HeaderList(headers) == [kind |-> "headers", v |-> headers]

\* the header list the caller provided, UndefinedValue when there is none or
\* the promise rejects
resolveProvidedHeaders(providedHeaders) ==
  IF providedHeaders.kind = "headers" THEN providedHeaders
  ELSE UndefinedValue

\* the header list of nextHeaders(), UndefinedValue when it throws
resolveNextHeaders(next) ==
  IF next.kind = "headers" THEN next ELSE UndefinedValue

\* the context of a header list, UndefinedValue when there is no list
ContextOf(headersList) ==
  IF headersList = UndefinedValue THEN UndefinedValue
  ELSE resolveHeaderContext(headersList.v)

resolveHeaderContextFromSources(providedHeaders, fallbackToNext, next, env) ==
  LET provided == resolveProvidedHeaders(providedHeaders)
  IN ContextOf(IF provided # UndefinedValue THEN provided
               ELSE IF ~fallbackToNext THEN UndefinedValue
               ELSE IF isStaticGenerationPhase(env) THEN UndefinedValue
               ELSE resolveNextHeaders(next))

fallbackBaseUrl == NewURL(DEFAULT_BASE_URL)

\* Each exported function returns its value and the cache it leaves.
\* context?.directUrl
DirectUrlOf(context) ==
  IF context = UndefinedValue THEN UndefinedValue ELSE context.directUrl

\* the URL built from context?.host, when there is one
BuiltFrom(context) ==
  IF context = UndefinedValue THEN UndefinedValue
  ELSE IF context.host = UndefinedValue THEN UndefinedValue
  ELSE constructUrlFromHost(context.host, context.protocol)

WithCache(value, deployment) ==
  [value |-> Coalesce(value, Coalesce(deployment.value, fallbackBaseUrl)),
   cache |-> deployment.cache]

\* variant: the URL built from the host headers wins over the explicit one
HeaderUrlOf_HostFirst(context) ==
  Coalesce(BuiltFrom(context), DirectUrlOf(context))

HeaderUrlOf(context) ==
  Coalesce(DirectUrlOf(context), BuiltFrom(context))

getBaseUrlFromHeaders_HostFirst(providedHeaders, next, env, cache) ==
  WithCache(HeaderUrlOf_HostFirst(
              resolveHeaderContextFromSources(providedHeaders, TRUE, next, env)),
            readDeploymentUrl(env, cache))

getBaseUrlFromHeaders(providedHeaders, next, env, cache) ==
  WithCache(HeaderUrlOf(
              resolveHeaderContextFromSources(providedHeaders, TRUE, next, env)),
            readDeploymentUrl(env, cache))

\* the body of getBaseUrl once the candidates, the deployment URL and the
\* two header contexts are read
BaseUrlFrom(candidates, deployment, initialContext, nextContext) ==
  [value |->
     Coalesce(resolveUrlFromContext(initialContext, candidates),
       Coalesce(resolveUrlFromContext(nextContext, candidates),
         IF Len(candidates) > 0 THEN CopyUrl(candidates[1])
         ELSE IF deployment.value # UndefinedValue
         THEN CopyUrl(deployment.value)
         ELSE fallbackBaseUrl)),
   cache |-> deployment.cache]

\* the deployment URL is read with the cache the candidates left
DeploymentAfter(candidatesRead, env) ==
  readDeploymentUrl(env, candidatesRead.cache)

BaseUrlAfter(candidatesRead, providedHeaders, next, env) ==
  BaseUrlFrom(candidatesRead.value, DeploymentAfter(candidatesRead, env),
              resolveHeaderContextFromSources(providedHeaders, FALSE, next, env),
              resolveHeaderContextFromSources(NoHeaders, TRUE, next, env))

getBaseUrl(providedHeaders, next, env, cache) ==
  BaseUrlAfter(readBaseUrlCandidates(env, cache), providedHeaders, next, env)

\* baseUrl.toString()
Stringified(baseUrl) ==
  [value |-> UrlToString(baseUrl.value), cache |-> baseUrl.cache]

getBaseUrlString(providedHeaders, next, env, cache) ==
  Stringified(getBaseUrl(providedHeaders, next, env, cache))

EmptyCache ==
  [cachedBaseUrlEnv |-> UndefinedValue,
   cachedBaseUrlCandidates |-> UndefinedValue,
   cachedDeploymentUrlEnv |-> UndefinedValue,
   cachedDeploymentUrl |-> UndefinedValue]

(***************************************************************************)
(* Domain configuration (src/lib/config/domain.ts; the revision in         *)
(* src/unnamed/part_000 adds sanitiseDomainEntry).  The text of a list is  *)
(* a sequence of tokens: a domain name, "*." (the wildcard prefix), a      *)
(* scheme name with its colon, "/", "#", "?", "," and white space.         *)
(***************************************************************************)
SchemeNames == {"https:", "HTTPS:", "http:"}

PathStarts == {"#", "/", "?"}

\* toLowerCase() of a token of a list
LowerToken(token) ==
  CASE token = "A.com" -> "a.com"
    [] token = "HTTPS:" -> "https:"
    [] OTHER -> token

LowerEntry(text) == [i \in 1..Len(text) |-> LowerToken(text[i])]

\* text.replace(/^https?:\/\//i, '')
StripScheme(text) ==
  IF Len(text) >= 3 /\ text[1] \in SchemeNames /\ text[2] = "/" /\ text[3] = "/"
  THEN SubSeq(text, 4, Len(text))
  ELSE text

\* text.replace(/[#/?].*$/, ''): the cut is at the first of the three
\* characters that no line break follows, as `.` matches none
StripPath(text) ==
  LET at == {p \in 1..Len(text) :
               /\ text[p] \in PathStarts
               /\ \A q \in p + 1..Len(text) : text[q] # "\n"}
  IN IF at = {} THEN text
     ELSE SubSeq(text, 1, (CHOOSE p \in at : \A q \in at : p <= q) - 1)

sanitiseDomainEntry(raw) ==
  LET trimmed == Trim(raw)
      hasWildcard == trimmed # <<>> /\ trimmed[1] = "*."
      withoutWildcard == IF hasWildcard THEN Tail(trimmed) ELSE trimmed
      withoutScheme == StripScheme(withoutWildcard)
      withoutPath == StripPath(withoutScheme)
      cleaned == LowerEntry(withoutPath)
  IN IF trimmed = <<>> THEN <<>>
     ELSE IF cleaned = <<>> THEN <<>>
     ELSE IF hasWildcard THEN <<"*.">> \o cleaned
     ELSE cleaned

\* the loop of normaliseDomains; `seen` holds what `result` holds
RECURSIVE normaliseDomainsFrom(_, _)
normaliseDomainsFrom(domains, result) ==
  IF domains = <<>> THEN result
  ELSE LET cleaned == sanitiseDomainEntry(Head(domains))
       IN IF cleaned = <<>> \/ \E i \in 1..Len(result) : result[i] = cleaned
          THEN normaliseDomainsFrom(Tail(domains), result)
          ELSE normaliseDomainsFrom(Tail(domains), Append(result, cleaned))

normaliseDomains(domains) == normaliseDomainsFrom(domains, <<>>)

\* raw.split(/[,\n]/)
RECURSIVE SplitList(_)
SplitList(raw) ==
  LET at == {p \in 1..Len(raw) : raw[p] \in {",", "\n"}}
  IN IF at = {} THEN <<raw>>
     ELSE LET p == CHOOSE q \in at : \A r \in at : q <= r
          IN <<SubSeq(raw, 1, p - 1)>> \o SplitList(SubSeq(raw, p + 1, Len(raw)))

\* <<>> stands for undefined and for ''
parseListFromString(raw) ==
  IF raw = <<>> THEN <<>>
  ELSE LET parts == SplitList(raw)
           trimmed == [i \in 1..Len(parts) |-> Trim(parts[i])]
           entries == SelectSeq(trimmed, Truthy)
       IN normaliseDomains(entries)

\* an array item that is not a string counts as ''
ItemText(item) == IF item.kind = "string" THEN item.v ELSE <<>>

normaliseDomainList(input) ==
  IF input.kind = "array"
  THEN normaliseDomains([i \in 1..Len(input.v) |-> ItemText(input.v[i])])
  ELSE IF input.kind = "string" /\ Truthy(input.v)
  THEN parseListFromString(input.v)
  ELSE <<>>

\* the first of the variables whose value is not blank; <<>> stands for an
\* unset variable and for the result undefined
getFirstEnvValue_PublicFirst(env, keys) ==
  IF Trim(env[keys[2]]) # <<>> THEN env[keys[2]]
  ELSE IF Trim(env[keys[1]]) # <<>> THEN env[keys[1]]
  ELSE <<>>

getFirstEnvValue(env, keys) ==
  IF Trim(env[keys[1]]) # <<>> THEN env[keys[1]]
  ELSE IF Trim(env[keys[2]]) # <<>> THEN env[keys[2]]
  ELSE <<>>

\* a text or, for the empty text, undefined
Optional(text) == IF text = <<>> THEN UndefinedValue ELSE StringValue(text)

buildDomainConfiguration(env) ==
  LET defaultIncludeRaw ==
        getFirstEnvValue(env, <<"DEFAULT_INCLUDE_DOMAINS",
                                "NEXT_PUBLIC_DEFAULT_INCLUDE_DOMAINS">>)
      defaultExcludeRaw ==
        getFirstEnvValue(env, <<"DEFAULT_EXCLUDE_DOMAINS",
                                "NEXT_PUBLIC_DEFAULT_EXCLUDE_DOMAINS">>)
      instructionsRaw ==
        getFirstEnvValue(env, <<"DOMAIN_AGENT_INSTRUCTIONS",
                                "NEXT_PUBLIC_DOMAIN_AGENT_INSTRUCTIONS">>)
  IN [kind |-> "configuration",
      defaultIncludeDomains |-> parseListFromString(defaultIncludeRaw),
      defaultExcludeDomains |-> parseListFromString(defaultExcludeRaw),
      agentInstructions |-> Optional(Trim(instructionsRaw))]

\* the configuration returned and the memo it leaves
\* variant: the configuration is built at every call
getDomainConfiguration_Rebuilds(env, cachedConfiguration) ==
  LET configuration == buildDomainConfiguration(env)
  IN [value |-> configuration, cachedConfiguration |-> configuration]

getDomainConfiguration(env, cachedConfiguration) ==
  LET configuration == IF cachedConfiguration = UndefinedValue
                       THEN buildDomainConfiguration(env)
                       ELSE cachedConfiguration
  IN [value |-> configuration, cachedConfiguration |-> configuration]

resetDomainConfigurationCache == UndefinedValue

appendDomainInstructions(basePrompt, env, cachedConfiguration) ==
  LET configuration == getDomainConfiguration(env, cachedConfiguration)
      instructions == configuration.value.agentInstructions
      trimmedBase == TrimEnd(basePrompt)
      separator == IF Len(trimmedBase) > 0 THEN <<"\n", "\n">> ELSE <<>>
  IN [value |-> IF instructions = UndefinedValue THEN basePrompt
                ELSE trimmedBase \o separator
                       \o <<"Domain-specific instructions:", "\n">>
                       \o instructions.v,
      cachedConfiguration |-> configuration.cachedConfiguration]

(***************************************************************************)
(* State.                                                                  *)
(*                                                                         *)
(* Orchestrator (executeToolCall and its callees):                         *)
(*   pc             position of the single asynchronous task               *)
(*   coreMessages   the conversation passed in                             *)
(*   searchMode     the search-mode flag passed in                         *)
(*   toolPlan       the plan returned by buildToolPlan                     *)
(*   invocations    the invocation list iterated by executePlannedTools    *)
(*   index          position of the for-loop in invocations (1-based)      *)
(*   executedSteps  the ExecutedStep[] built by the loop                   *)
(*   pending        callAnnotation and parsed parameters of the awaited    *)
(*                  tool run                                               *)
(*   generated      number of ids handed out by generateId                 *)
(*   trace          everything the task did to its collaborators, in       *)
(*                  order: planner calls, sink writes, tool runs           *)
(*   outcome        how executeToolCall settled (returned value / thrown)  *)
(* Normalizer harness (normalizeToolPlan applied to arbitrary plans):      *)
(*   npInput, npOnce, npTwice, npPc                                        *)
(* Summarizer harness (buildExecutionSummary applied to executed steps):   *)
(*   sumSteps, sumLanguage, sumSummary, sumPc                              *)
(* Language harness (detectLanguageFromText, then getLocalization):        *)
(*   dlText, dlTag, dlRequested, dlBundle, dlPc                            *)
(***************************************************************************)
VARIABLES pc, coreMessages, searchMode, toolPlan, invocations, index,
          executedSteps, pending, generated, trace, outcome,
          npInput, npOnce, npTwice, npPc,
          sumSteps, sumLanguage, sumSummary, sumPc,
          dlText, dlTag, dlRequested, dlBundle, dlPc,
          urlEnv, urlCache, urlCall, urlFresh, urlCalls, urlPc,
          domEnv, domCache, domCall, domPc,
          ndInput, ndOnce, ndTwice, ndPc,
          insPlan, insNormalized, insLanguage, insSteps, insOutput, insPc

orchVars == <<pc, coreMessages, searchMode, toolPlan, invocations, index,
              executedSteps, pending, generated, trace, outcome>>

normVars == <<npInput, npOnce, npTwice, npPc>>

sumVars == <<sumSteps, sumLanguage, sumSummary, sumPc>>

langVars == <<dlText, dlTag, dlRequested, dlBundle, dlPc>>

urlVars == <<urlEnv, urlCache, urlCall, urlFresh, urlCalls, urlPc>>

domVars == <<domEnv, domCache, domCall, domPc>>

listVars == <<ndInput, ndOnce, ndTwice, ndPc>>

insVars == <<insPlan, insNormalized, insLanguage, insSteps, insOutput, insPc>>

vars == <<pc, coreMessages, searchMode, toolPlan, invocations, index,
          executedSteps, pending, generated, trace, outcome,
          npInput, npOnce, npTwice, npPc,
          sumSteps, sumLanguage, sumSummary, sumPc,
          dlText, dlTag, dlRequested, dlBundle, dlPc,
          urlEnv, urlCache, urlCall, urlFresh, urlCalls, urlPc,
          domEnv, domCache, domCall, domPc,
          ndInput, ndOnce, ndTwice, ndPc,
          insPlan, insNormalized, insLanguage, insSteps, insOutput, insPc>>

(***************************************************************************)
(* Conversation and getLastUserText (src/unnamed/part_005).                *)
(***************************************************************************)
TextMessage(role, text) ==
  [role |-> role, content |-> [kind |-> "string", text |-> text]]

PartsMessage(role, parts) ==
  [role |-> role, content |-> [kind |-> "parts", parts |-> parts]]

TextPart(text) == [type |-> "text", text |-> text]

ImagePart == [type |-> "image", text |-> <<>>]

\* items.join(sep)
RECURSIVE Join(_, _)
Join(items, sep) ==
  IF items = <<>> THEN <<>>
  ELSE IF Len(items) = 1 THEN items[1]
  ELSE items[1] \o sep \o Join(Tail(items), sep)

PartText(part) == IF part.type = "text" THEN part.text ELSE <<>>

\* the for-loop of getLastUserText, from position index down to 1
RECURSIVE LastUserTextFrom(_, _)
LastUserTextFrom(messages, position) ==
  IF position < 1 THEN <<>>
  ELSE LET message == messages[position] IN
       IF message.role # "user" THEN LastUserTextFrom(messages, position - 1)
       ELSE IF message.content.kind = "string" THEN message.content.text
       ELSE LET parts == message.content.parts
                textParts ==
                  SelectSeq([i \in 1..Len(parts) |-> PartText(parts[i])], Truthy)
            IN IF Len(textParts) > 0 THEN Join(textParts, <<"\n">>)
               ELSE LastUserTextFrom(messages, position - 1)

getLastUserText(messages) == LastUserTextFrom(messages, Len(messages))

(***************************************************************************)
(* Invocation parameter validation.                                        *)
(***************************************************************************)
HasString(parameters, key) ==
  key \in DOMAIN parameters /\ parameters[key].kind = "string"

Restrict(parameters, keys) ==
  [k \in DOMAIN parameters \cap keys |-> parameters[k]]

\* searchSchema: query is required non-empty text; unknown keys are stripped
searchParameterParser(parameters) ==
  IF HasString(parameters, "query") /\ Len(parameters["query"].v) > 0
  THEN [success |-> TRUE, data |-> Restrict(parameters, {"query"})]
  ELSE [success |-> FALSE]

\* retrieveSchema: url is required
retrieveParameterParser(parameters) ==
  IF HasString(parameters, "url")
  THEN [success |-> TRUE, data |-> Restrict(parameters, {"url"})]
  ELSE [success |-> FALSE]

\* z.object({query: searchSchema.shape.query, ...})
videoSearchParameterParser(parameters) ==
  IF HasString(parameters, "query") /\ Len(parameters["query"].v) > 0
  THEN [success |-> TRUE, data |-> Restrict(parameters, {"query"})]
  ELSE [success |-> FALSE]

supportedToolNames == {"search", "retrieve", "videoSearch"}

IsSupported(invocation) == invocation.tool \in supportedToolNames

\* toolInvocationSchemaInternal.safeParse(invocation).success
toolInvocationSchemaInternal(invocation) ==
  /\ DOMAIN invocation = {"id", "tool", "description", "parameters"}
  /\ invocation.tool \in {"search", "retrieve", "videoSearch"}

\* the parsed tool parameters, or NullValue
parseInvocationParameters(invocation) ==
  LET parser == CASE invocation.tool = "search" ->
                       searchParameterParser(invocation.parameters)
                  [] invocation.tool = "retrieve" ->
                       retrieveParameterParser(invocation.parameters)
                  [] invocation.tool = "videoSearch" ->
                       videoSearchParameterParser(invocation.parameters)
                  [] OTHER -> [success |-> FALSE]
  IN IF parser.success
     THEN [tool |-> invocation.tool, parameters |-> parser.data]
     ELSE NullValue

(***************************************************************************)
(* Progress events.                                                        *)
(***************************************************************************)
\* JSON.stringify(value)
JSONstringify(value) == [json |-> value]

\* {...record, [key]: value}
Spread(record, key, value) ==
  [k \in DOMAIN record \cup {key} |-> IF k = key THEN value ELSE record[k]]

\* generateId() of the 'ai' package: a fresh id on every call
generateId(count) == NumToStr(count + 1)

\* variant: the id is generated once and reused for every call
NewToolCallId_Reused(count) == <<"call_">> \o generateId(0)

NewToolCallId(count) == <<"call_">> \o generateId(count)

CallAnnotation(toolCallId, parsed, description) ==
  [type |-> "tool_call",
   data |-> [state |-> "call",
             toolCallId |-> toolCallId,
             toolName |-> parsed.tool,
             args |-> JSONstringify(parsed.parameters),
             description |-> description]]

ResultAnnotation(callAnnotation, result) ==
  [type |-> callAnnotation.type,
   data |-> Spread(Spread(callAnnotation.data, "result", JSONstringify(result)),
                   "state", "result")]

ErrorAnnotation(callAnnotation, message) ==
  [type |-> callAnnotation.type,
   data |-> Spread(Spread(callAnnotation.data, "state", "result"),
                   "error", message)]

FallbackCallAnnotation(toolCallId, query) ==
  [type |-> "tool_call",
   data |-> [state |-> "call",
             toolCallId |-> toolCallId,
             toolName |-> "search",
             args |-> JSONstringify([query |-> query])]]

\* trace entries
PlannerCall == [type |-> "plannerCall"]
WriteData(annotation) ==
  [type |-> "write", method |-> "writeData", annotation |-> annotation]
WriteMessageAnnotation(annotation) ==
  [type |-> "write", method |-> "writeMessageAnnotation",
   annotation |-> annotation]
ToolStart(caller, tool, args) ==
  [type |-> "toolStart", caller |-> caller, tool |-> tool, args |-> args]
ToolEnd(caller, toolOutcome) ==
  [type |-> "toolEnd", caller |-> caller, outcome |-> toolOutcome]


(***************************************************************************)
(* Inputs of the orchestrator: conversations, planner results and tool     *)
(* outcomes.                                                               *)
(***************************************************************************)
\* all sequences over pool of length at most n
SeqsUpTo(pool, n) == UNION {[1..k -> pool] : k \in 0..n}

CoreMessageLists ==
  { <<TextMessage("user", <<"q">>)>>,
    <<TextMessage("user", <<>>)>>,
    <<TextMessage("user", <<" ">>)>>,
    <<TextMessage("user", <<"q">>), TextMessage("assistant", <<"r">>)>>,
    <<TextMessage("user", <<"p">>), TextMessage("user", <<>>)>>,
    <<TextMessage("user", <<"p">>), PartsMessage("user", <<ImagePart>>)>>,
    <<PartsMessage("user", <<TextPart(<<"q">>), ImagePart, TextPart(<<"r">>)>>)>>,
    <<TextMessage("assistant", <<"r">>)>>,
    <<TextMessage("user", <<"U+044F">>)>> }

Invocation(id, tool, description, parameters) ==
  [id |-> id, tool |-> tool, description |-> description,
   parameters |-> parameters]

QueryParameters == [k \in {"query"} |-> StringValue(<<"q">>)]
UrlParameters == [k \in {"url"} |-> StringValue(<<"u">>)]
QueryAndNullUrl ==
  [k \in {"query", "url"} |->
     IF k = "query" THEN StringValue(<<"q">>) ELSE NullValue]

QueryUrlAndNull ==
  [k \in {"query", "url", "max_results"} |->
     IF k = "query" THEN StringValue(<<"q">>)
     ELSE IF k = "url" THEN StringValue(<<"u">>) ELSE NullValue]

\* invocations as generateObject returns them under planSchema
\* (id and description have at least one character)
PlannerInvocationPool ==
  { Invocation(<<"a">>, "search", <<"d", "1">>, QueryParameters),
    Invocation(<<"a">>, "search", <<"d", "2">>, EmptyRecord),
    Invocation(<<"b">>, "retrieve", <<"d", "3">>, UrlParameters),
    Invocation(<<"b">>, "retrieve", <<"d", "4">>, QueryParameters),
    Invocation(<<"c">>, "videoSearch", <<"d", "5">>, QueryUrlAndNull),
    Invocation(<<"n">>, "none", <<"d", "6">>, EmptyRecord),
    Invocation(<<"w">>, "search", <<" ">>, QueryParameters) }

\* a plan whose third id is the id the normalizer derives for the second
RepeatedIdInvocations ==
  << Invocation(<<"a">>, "search", <<"d", "1">>, QueryParameters),
     Invocation(<<"a">>, "search", <<"d", "1">>, QueryParameters),
     Invocation(<<"a", "-", "2">>, "search", <<"d", "1">>, QueryParameters) >>

PlannerResults ==
  { [plan |-> <<[step |-> <<"s">>, detail |-> <<"t">>]>>,
     toolInvocations |-> invs,
     finalResponseInstruction |-> DEFAULT_FINAL_RESPONSE_INSTRUCTION] :
    invs \in SeqsUpTo(PlannerInvocationPool, MaxInvocations)
              \cup {RepeatedIdInvocations} }

ResultSizes == {0, 2}

ErrorMessages == { <<>>, <<"t", "i", "m", "e", "o", "u", "t">> }

ItemOf(i) ==
  [title |-> <<"T">> \o NumToStr(i), url |-> <<"u">> \o NumToStr(i),
   content |-> <<"c", " ", "\n">> \o NumToStr(i)]

\* a video of the video search; the snippet is optional
VideoOf(i) ==
  IF i % 2 = 1
  THEN [title |-> <<"V">> \o NumToStr(i), link |-> <<"l">> \o NumToStr(i),
        snippet |-> <<"s">> \o NumToStr(i)]
  ELSE [title |-> <<"V">> \o NumToStr(i), link |-> <<"l">> \o NumToStr(i)]

\* the payload a tool resolves with
ToolResult(tool, n) ==
  IF tool = "videoSearch" THEN [videos |-> [i \in 1..n |-> VideoOf(i)]]
  ELSE [results |-> [i \in 1..n |-> ItemOf(i)]]

\* what a tool or the planner can throw
ErrorValue(message) == [kind |-> "Error", message |-> message]
NonErrorValue == [kind |-> "nonError"]
Throwables == {ErrorValue(m) : m \in ErrorMessages} \cup {NonErrorValue}

PlannerError == ErrorValue(<<"planner failed">>)

(***************************************************************************)
(* Localization bundles.  A fixed phrase of a bundle is a two-atom text    *)
(* <<key, language>>; the three phrase builders keep the text before and   *)
(* after their argument.                                                   *)
(***************************************************************************)
Phrase(key, language) == <<key, language>>

Template(key, language, hasSuffix) ==
  [before |-> Phrase(key, language),
   after |-> IF hasSuffix THEN <<"...", key, language>> ELSE <<>>]

LOCALIZATIONS ==
  [language \in SupportedLanguages |->
     [researchSummaryHeading |-> Phrase("researchSummaryHeading", language),
      sourcesDirectoryHeading |-> Phrase("sourcesDirectoryHeading", language),
      noResultsFound |-> Phrase("noResultsFound", language),
      unableToRetrieve |-> Phrase("unableToRetrieve", language),
      noVideosFound |-> Phrase("noVideosFound", language),
      plannedApproachHeading |-> Phrase("plannedApproachHeading", language),
      noPlanProvided |-> Phrase("noPlanProvided", language),
      executedRunsHeading |-> Phrase("executedRunsHeading", language),
      noToolsExecuted |-> Phrase("noToolsExecuted", language),
      completedSuccessfully |-> Phrase("completedSuccessfully", language),
      failedWithError |-> Template("failedWithError", language, FALSE),
      descriptionLabel |-> Phrase("descriptionLabel", language),
      statusLabel |-> Phrase("statusLabel", language),
      noSourcesInstruction |-> Phrase("noSourcesInstruction", language),
      useSourcesInstruction |-> Template("useSourcesInstruction", language, TRUE),
      fallbackSearchDescription |->
        Template("fallbackSearchDescription", language, TRUE),
      defaultFinalInstruction |-> Phrase("defaultFinalInstruction", language),
      fallbackResponderInstruction |->
        Phrase("fallbackResponderInstruction", language)]]

\* variant: no default for an unrecognized tag
getLocalization_NoDefault(language) ==
  IF language \in DOMAIN LOCALIZATIONS THEN LOCALIZATIONS[language]
  ELSE UndefinedValue

\* `LOCALIZATIONS[language] ?? LOCALIZATIONS.en`
getLocalization(language) ==
  IF language \in DOMAIN LOCALIZATIONS THEN LOCALIZATIONS[language]
  ELSE LOCALIZATIONS["en"]

failedWithError(localization, error) ==
  localization.failedWithError.before \o error
    \o localization.failedWithError.after

useSourcesInstruction(localization, markers) ==
  localization.useSourcesInstruction.before \o markers
    \o localization.useSourcesInstruction.after

fallbackSearchDescription(localization, query) ==
  localization.fallbackSearchDescription.before \o query
    \o localization.fallbackSearchDescription.after

(***************************************************************************)
(* The summarizer.  U+2022 is the bullet, U+2013 the en dash, U+26A0       *)
(* U+FE0F the warning sign and U+2026 the ellipsis.                        *)
(***************************************************************************)
SearchSnippetLength == 160
RetrieveSnippetLength == 200
TopResults == 3

\* s.slice(0, n)
Slice(s, n) == SubSeq(s, 1, IF Len(s) < n THEN Len(s) ELSE n)

\* `step.error` as a condition: a non-empty string
HasError(step) == step.error.kind = "string" /\ Truthy(step.error.v)

\* `[${index}]`
createMarker(markerIndex) == <<"[">> \o NumToStr(markerIndex) \o <<"]">>

Bullet(step) == <<"U+2022", " ">> \o step.description

Source(marker, url, title, stepId) ==
  [marker |-> marker, url |-> url, title |-> title, stepId |-> stepId]

\* `!result || !Array.isArray(result.results) || result.results.length === 0`
NoResults(result) ==
  \/ result = NullValue
  \/ "results" \notin DOMAIN result
  \/ Len(result.results) = 0

\* s.replace(/\s+/g, ' '): every maximal run of whitespace becomes one
\* space; a character is kept when it is not whitespace or starts a run
CollapseWhitespace(s) ==
  LET StartsRun(i) == IsSpace(s[i]) /\ (i = 1 \/ ~IsSpace(s[i - 1]))
      Kept(i) == ~IsSpace(s[i]) \/ StartsRun(i)
      kept == SelectSeq([i \in 1..Len(s) |-> i], Kept)
  IN [j \in 1..Len(kept) |-> IF IsSpace(s[kept[j]]) THEN " " ELSE s[kept[j]]]

\* content.replace(/\s+/g, ' ').slice(0, n) followed by the ellipsis
\* when the content is longer than n
Snippet(content, n) ==
  Slice(CollapseWhitespace(content), n)
    \o (IF Len(content) > n THEN <<"U+2026">> ELSE <<>>)

\* variant: every result item of a search is listed
formatSearchSummary_AllResults(step, context, localization) ==
  IF NoResults(step.result)
  THEN [text |-> Bullet(step) \o <<"\n", " ", " ", "U+2013", " ">>
                   \o localization.noResultsFound,
        nextIndex |-> context.startIndex,
        sources |-> context.sources]
  ELSE
    LET topResults == step.result.results
        formatted ==
          [i \in 1..Len(topResults) |->
             <<" ", " ">> \o createMarker(context.startIndex + i - 1)
               \o <<" ">> \o topResults[i].title \o <<" ", "U+2013", " ">>
               \o topResults[i].url \o <<"\n", " ", " ", " ", " ">>
               \o Snippet(topResults[i].content, SearchSnippetLength)]
        pushed ==
          [i \in 1..Len(topResults) |->
             Source(createMarker(context.startIndex + i - 1),
                    topResults[i].url, topResults[i].title, step.id)]
    IN [text |-> Bullet(step) \o <<"\n">> \o Join(formatted, <<"\n">>),
        nextIndex |-> context.startIndex + Len(topResults),
        sources |-> context.sources \o pushed]

formatSearchSummary(step, context, localization) ==
  IF NoResults(step.result)
  THEN [text |-> Bullet(step) \o <<"\n", " ", " ", "U+2013", " ">>
                   \o localization.noResultsFound,
        nextIndex |-> context.startIndex,
        sources |-> context.sources]
  ELSE
    LET topResults == Slice(step.result.results, TopResults)
        formatted ==
          [i \in 1..Len(topResults) |->
             <<" ", " ">> \o createMarker(context.startIndex + i - 1)
               \o <<" ">> \o topResults[i].title \o <<" ", "U+2013", " ">>
               \o topResults[i].url \o <<"\n", " ", " ", " ", " ">>
               \o Snippet(topResults[i].content, SearchSnippetLength)]
        pushed ==
          [i \in 1..Len(topResults) |->
             Source(createMarker(context.startIndex + i - 1),
                    topResults[i].url, topResults[i].title, step.id)]
    IN [text |-> Bullet(step) \o <<"\n">> \o Join(formatted, <<"\n">>),
        nextIndex |-> context.startIndex + Len(topResults),
        sources |-> context.sources \o pushed]

formatRetrieveSummary(step, context, localization) ==
  IF NoResults(step.result)
  THEN [text |-> Bullet(step) \o <<"\n", " ", " ", "U+2013", " ">>
                   \o localization.unableToRetrieve,
        nextIndex |-> context.startIndex,
        sources |-> context.sources]
  ELSE
    LET marker == createMarker(context.startIndex)
        item == step.result.results[1]
    IN [text |-> Bullet(step) \o <<"\n", " ", " ">> \o marker \o <<" ">>
                   \o item.url \o <<"\n", " ", " ", " ", " ">>
                   \o Snippet(item.content, RetrieveSnippetLength),
        nextIndex |-> context.startIndex + 1,
        sources |-> Append(context.sources,
                           Source(marker, item.url, item.title, step.id))]

\* `!videos || videos.length === 0` with videos = result?.videos
NoVideos(result) ==
  \/ result = NullValue
  \/ "videos" \notin DOMAIN result
  \/ Len(result.videos) = 0

\* `video.snippet || ''`
VideoSnippet(video) ==
  IF "snippet" \in DOMAIN video THEN video.snippet ELSE <<>>

formatVideoSummary(step, context, localization) ==
  IF NoVideos(step.result)
  THEN [text |-> Bullet(step) \o <<"\n", " ", " ", "U+2013", " ">>
                   \o localization.noVideosFound,
        nextIndex |-> context.startIndex,
        sources |-> context.sources]
  ELSE
    LET limitedVideos == Slice(step.result.videos, TopResults)
        formatted ==
          [i \in 1..Len(limitedVideos) |->
             LET video == limitedVideos[i]
                 snippet == Slice(CollapseWhitespace(VideoSnippet(video)),
                                  SearchSnippetLength)
             IN <<" ", " ">> \o createMarker(context.startIndex + i - 1)
                  \o <<" ">> \o video.title \o <<" ", "U+2013", " ">>
                  \o video.link
                  \o (IF Truthy(snippet)
                      THEN <<"\n", " ", " ", " ", " ">> \o snippet
                             \o (IF Len(VideoSnippet(video))
                                      > SearchSnippetLength
                                 THEN <<"U+2026">> ELSE <<>>)
                      ELSE <<>>)]
        pushed ==
          [i \in 1..Len(limitedVideos) |->
             Source(createMarker(context.startIndex + i - 1),
                    limitedVideos[i].link, limitedVideos[i].title, step.id)]
    IN [text |-> Bullet(step) \o <<"\n">> \o Join(formatted, <<"\n">>),
        nextIndex |-> context.startIndex + Len(limitedVideos),
        sources |-> context.sources \o pushed]

formatSourcesDirectory(sources, localization) ==
  IF Len(sources) = 0 THEN <<>>
  ELSE
    LET lines ==
          [i \in 1..Len(sources) |->
             sources[i].marker \o <<" ">>
               \o (IF Truthy(sources[i].title)
                   THEN sources[i].title \o <<" ", "U+2013", " ">>
                   ELSE <<>>)
               \o sources[i].url]
    IN localization.sourcesDirectoryHeading \o <<":", "\n">>
         \o Join(lines, <<"\n">>)

\* variant: a failed step still takes a marker number
StepSummary_FailedTakesMarker(step, context, localization) ==
  IF HasError(step)
  THEN [text |-> Bullet(step) \o <<"\n", " ", " ", "U+26A0", "U+FE0F", " ">>
                   \o failedWithError(localization, step.error.v),
        nextIndex |-> context.startIndex + 1,
        sources |-> context.sources]
  ELSE IF step.tool = "search"
  THEN formatSearchSummary(step, context, localization)
  ELSE IF step.tool = "retrieve"
  THEN formatRetrieveSummary(step, context, localization)
  ELSE IF step.tool = "videoSearch"
  THEN formatVideoSummary(step, context, localization)
  ELSE [text |-> <<>>, nextIndex |-> context.startIndex,
        sources |-> context.sources]

\* the callback of `steps.map` in buildExecutionSummary
StepSummary(step, context, localization) ==
  IF HasError(step)
  THEN [text |-> Bullet(step) \o <<"\n", " ", " ", "U+26A0", "U+FE0F", " ">>
                   \o failedWithError(localization, step.error.v),
        nextIndex |-> context.startIndex,
        sources |-> context.sources]
  ELSE IF step.tool = "search"
  THEN formatSearchSummary(step, context, localization)
  ELSE IF step.tool = "retrieve"
  THEN formatRetrieveSummary(step, context, localization)
  ELSE IF step.tool = "videoSearch"
  THEN formatVideoSummary(step, context, localization)
  ELSE [text |-> <<>>, nextIndex |-> context.startIndex,
        sources |-> context.sources]

\* `steps.map(...)` with its running nextMarkerIndex and sources
RECURSIVE SummarizeSteps(_, _, _)
SummarizeSteps(steps, context, localization) ==
  IF steps = <<>>
  THEN [parts |-> <<>>, sources |-> context.sources]
  ELSE
    LET first == StepSummary(Head(steps), context, localization)
        rest == SummarizeSteps(Tail(steps),
                               [startIndex |-> first.nextIndex,
                                sources |-> first.sources],
                               localization)
    IN [parts |-> <<first.text>> \o rest.parts, sources |-> rest.sources]

buildExecutionSummary(steps, localization) ==
  LET mapped == SummarizeSteps(steps, [startIndex |-> 1, sources |-> <<>>],
                               localization)
      truthyParts == SelectSeq(mapped.parts, Truthy)
      filtered == [i \in 1..Len(truthyParts) |-> Trim(truthyParts[i])]
      sourcesDirectory == formatSourcesDirectory(mapped.sources, localization)
      summaryBody ==
        IF Len(filtered) > 0 THEN Join(filtered, <<"\n", "\n">>)
        ELSE IF Len(steps) = 0 THEN localization.noToolsExecuted
        ELSE localization.noResultsFound
  IN [summary |-> localization.researchSummaryHeading \o <<":", "\n", "\n">>
                    \o summaryBody
                    \o (IF Truthy(sourcesDirectory)
                        THEN <<"\n", "\n">> \o sourcesDirectory ELSE <<>>),
      sources |-> mapped.sources]

StepStatus(step, localization) ==
  IF HasError(step) THEN failedWithError(localization, step.error.v)
  ELSE localization.completedSuccessfully

buildPlanAndExecutionOverview(plan, steps, localization) ==
  LET planLines ==
        [i \in 1..Len(plan.plan) |->
           NumToStr(i) \o <<".", " ">> \o plan.plan[i].step
             \o <<"\n", " ", " ", " ">> \o plan.plan[i].detail]
      invocationLines ==
        [i \in 1..Len(steps) |->
           <<"-", " ">> \o steps[i].id \o <<" ", "(", steps[i].tool, ")">>
             \o <<"\n", " ", " ">> \o localization.descriptionLabel
             \o <<":", " ">> \o steps[i].description
             \o <<"\n", " ", " ">> \o localization.statusLabel
             \o <<":", " ">> \o StepStatus(steps[i], localization)]
      plannedSection ==
        IF Len(planLines) > 0
        THEN Join(<<localization.plannedApproachHeading \o <<":">>>>
                    \o planLines, <<"\n">>)
        ELSE localization.plannedApproachHeading \o <<":", "\n">>
               \o localization.noPlanProvided
      executedSection ==
        IF Len(invocationLines) > 0
        THEN Join(<<localization.executedRunsHeading \o <<":">>>>
                    \o invocationLines, <<"\n">>)
        ELSE localization.executedRunsHeading \o <<":", "\n">>
               \o localization.noToolsExecuted
  IN plannedSection \o <<"\n", "\n">> \o executedSection

\* variant: only the first marker is listed
MarkerList_FirstOnly(sources) == sources[1].marker

\* sources.map(source => source.marker).join(', ')
MarkerList(sources) ==
  Join([i \in 1..Len(sources) |-> sources[i].marker], <<",", " ">>)

buildFinalResponderInstruction(baseInstruction, sources, localization) ==
  IF Len(sources) = 0
  THEN baseInstruction \o <<"\n", "\n">> \o localization.noSourcesInstruction
  ELSE baseInstruction \o <<"\n", "\n">>
         \o useSourcesInstruction(localization, MarkerList(sources))

buildFallbackOverview(steps, localization) ==
  LET details ==
        [i \in 1..Len(steps) |->
           <<"-", " ">> \o steps[i].description
             \o <<"\n", " ", " ">> \o localization.statusLabel
             \o <<":", " ">> \o StepStatus(steps[i], localization)]
  IN localization.executedRunsHeading \o <<":", "\n">>
       \o Join(details, <<"\n">>)

(***************************************************************************)
(* Results of executeToolCall.                                             *)
(***************************************************************************)
EmptyPair == [toolCallDataAnnotation |-> NullValue, toolCallMessages |-> <<>>]

Pending == [status |-> "pending"]
Returned(value) == [status |-> "returned", value |-> value]
Rejected(error) == [status |-> "rejected", error |-> error]

\* variant: only a blank instruction gets the localized default
getPlanFinalInstruction_BlankOnly(plan, localization) ==
  LET trimmed == Trim(plan.finalResponseInstruction)
  IN IF ~Truthy(trimmed) THEN localization.defaultFinalInstruction
     ELSE trimmed

getPlanFinalInstruction(plan, localization) ==
  LET trimmed == Trim(plan.finalResponseInstruction)
  IN IF ~Truthy(trimmed) \/ trimmed = DEFAULT_FINAL_RESPONSE_INSTRUCTION
     THEN localization.defaultFinalInstruction
     ELSE trimmed

\* JSON.stringify({...payload, sources})
stringifyResultWithSources(payload, sources) ==
  JSONstringify(Spread(payload, "sources", sources))

\* variant: the final instruction is not appended
createToolResponderMessages_NoInstruction(plan, steps, summary, localization, finalInstruction) ==
  << [role |-> "assistant",
      content |-> buildPlanAndExecutionOverview(plan, steps, localization)],
     [role |-> "assistant", content |-> summary.summary] >>

\* createToolResponderMessages: overview, summary, final instruction
createToolResponderMessages(plan, steps, summary, localization, finalInstruction) ==
  << [role |-> "assistant",
      content |-> buildPlanAndExecutionOverview(plan, steps, localization)],
     [role |-> "assistant", content |-> summary.summary],
     [role |-> "user",
      content |-> buildFinalResponderInstruction(finalInstruction,
                                                 summary.sources,
                                                 localization)] >>

\* the value returned at the end of executePlannedTools
PlannedExecution(plan, steps, localization) ==
  LET summary == buildExecutionSummary(steps, localization)
      finalInstruction == getPlanFinalInstruction(plan, localization)
  IN [toolCallDataAnnotation |->
        [role |-> "data",
         content |-> [type |-> "tool_call",
                      data |-> [state |-> "result",
                                toolCallId |-> <<"agent_pipeline">>,
                                toolName |-> "agent",
                                result |-> stringifyResultWithSources(
                                  [plan |-> plan.plan,
                                   toolInvocations |-> plan.toolInvocations,
                                   finalResponseInstruction |-> finalInstruction,
                                   steps |-> steps],
                                  summary.sources)]]],
      toolCallMessages |->
        createToolResponderMessages(plan, steps, summary, localization,
                                    finalInstruction)]

\* the single step fallbackSearch records
FallbackSteps(query, result, localization) ==
  << [id |-> <<"fallback-search">>,
      tool |-> "search",
      description |-> fallbackSearchDescription(localization, query),
      parameters |-> [k \in {"query"} |-> StringValue(query)],
      result |-> result,
      error |-> UndefinedValue] >>

\* the value returned at the end of fallbackSearch
FallbackExecution(resultAnnotation, query, result, localization) ==
  LET steps == FallbackSteps(query, result, localization)
      summary == buildExecutionSummary(steps, localization)
  IN [toolCallDataAnnotation |->
        [role |-> "data",
         content |-> [type |-> "tool_call",
                      data |-> Spread(resultAnnotation.data, "result",
                                 stringifyResultWithSources(
                                   [result |-> result,
                                    steps |-> steps,
                                    finalResponseInstruction |->
                                      localization.fallbackResponderInstruction],
                                   summary.sources))]],
      toolCallMessages |->
        << [role |-> "assistant",
            content |-> buildFallbackOverview(steps, localization)],
           [role |-> "assistant", content |-> summary.summary],
           [role |-> "user",
            content |-> buildFinalResponderInstruction(
                          localization.fallbackResponderInstruction,
                          summary.sources, localization)] >>]

\* `language` of executeToolCall: detected once from the last user text
Language == detectLanguageFromText(getLastUserText(coreMessages))

(***************************************************************************)
(* Orchestrator actions.                                                   *)
(***************************************************************************)
NormIdle ==
  /\ npInput = NullValue /\ npOnce = NullValue /\ npTwice = NullValue
  /\ npPc = "off"

SumIdle ==
  /\ sumSteps = <<>> /\ sumLanguage = "en" /\ sumSummary = NullValue
  /\ sumPc = "off"

LangIdle ==
  /\ dlText = <<>> /\ dlTag = "" /\ dlRequested = "" /\ dlBundle = NullValue
  /\ dlPc = "off"

UrlIdle ==
  /\ urlEnv = NullValue /\ urlCache = NullValue /\ urlCall = NullValue
  /\ urlFresh = FALSE /\ urlCalls = 0 /\ urlPc = "off"

DomIdle ==
  /\ domEnv = NullValue /\ domCache = NullValue /\ domCall = NullValue
  /\ domPc = "off"

ListIdle ==
  /\ ndInput = NullValue /\ ndOnce = NullValue /\ ndTwice = NullValue
  /\ ndPc = "off"

InsIdle ==
  /\ insPlan = NullValue /\ insNormalized = NullValue /\ insLanguage = "en"
  /\ insSteps = <<>> /\ insOutput = NullValue /\ insPc = "off"

OtherIdle == UrlIdle /\ DomIdle /\ ListIdle /\ InsIdle

Init ==
  /\ pc = "start"
  /\ coreMessages \in CoreMessageLists
  /\ searchMode \in BOOLEAN
  /\ toolPlan = NullValue
  /\ invocations = <<>>
  /\ index = 0
  /\ executedSteps = <<>>
  /\ pending = NullValue
  /\ generated = 0
  /\ trace = <<>>
  /\ outcome = Pending
  /\ NormIdle
  /\ SumIdle
  /\ LangIdle
  /\ OtherIdle

\* variant: the searchMode flag is not consulted
ExecuteToolCall_IgnoresSearchMode ==
  /\ pc = "start"
  /\ trace' = Append(trace, PlannerCall)
  /\ pc' = "planning"
  /\ UNCHANGED <<coreMessages, searchMode, toolPlan, invocations, index,
                 executedSteps, pending, generated, outcome>>
  /\ UNCHANGED <<normVars, sumVars, langVars, urlVars, domVars, listVars, insVars>>

\* executeToolCall up to `await buildToolPlan(...)`
ExecuteToolCall ==
  /\ pc = "start"
  /\ IF ~searchMode
     THEN /\ outcome' = Returned(EmptyPair)
          /\ pc' = "done"
          /\ trace' = trace
     ELSE /\ trace' = Append(trace, PlannerCall)
          /\ pc' = "planning"
          /\ outcome' = outcome
  /\ UNCHANGED <<coreMessages, searchMode, toolPlan, invocations, index,
                 executedSteps, pending, generated>>
  /\ UNCHANGED <<normVars, sumVars, langVars, urlVars, domVars, listVars, insVars>>

\* buildToolPlan resolves with the normalized planner object
PlannerReturns ==
  /\ pc = "planning"
  /\ \E raw \in PlannerResults : toolPlan' = normalizeToolPlan(raw)
  /\ pc' = "execute"
  /\ UNCHANGED <<coreMessages, searchMode, invocations, index, executedSteps,
                 pending, generated, trace, outcome>>
  /\ UNCHANGED <<normVars, sumVars, langVars, urlVars, domVars, listVars, insVars>>

\* variant: the planner's error is not caught
PlannerThrows_Propagates ==
  /\ pc = "planning"
  /\ trace' = Append(trace, [type |-> "plannerThrow", error |-> PlannerError])
  /\ outcome' = Rejected(PlannerError)
  /\ pc' = "done"
  /\ UNCHANGED <<coreMessages, searchMode, toolPlan, invocations, index,
                 executedSteps, pending, generated>>
  /\ UNCHANGED <<normVars, sumVars, langVars, urlVars, domVars, listVars, insVars>>

\* buildToolPlan rejects; the catch block logs and falls through
PlannerThrows ==
  /\ pc = "planning"
  /\ trace' = Append(trace, [type |-> "plannerThrow", error |-> PlannerError])
  /\ pc' = "fallback"
  /\ UNCHANGED <<coreMessages, searchMode, toolPlan, invocations, index,
                 executedSteps, pending, generated, outcome>>
  /\ UNCHANGED <<normVars, sumVars, langVars, urlVars, domVars, listVars, insVars>>

\* variant: any empty invocation list yields null
ReturnsNull_AnyEmpty(parsedInvocations, filteredInvocations) ==
  Len(parsedInvocations) = 0

\* `invocations.length === 0 && filteredInvocations.length > 0`
ReturnsNull(parsedInvocations, filteredInvocations) ==
  Len(parsedInvocations) = 0 /\ Len(filteredInvocations) > 0

\* executePlannedTools up to the for-loop
BeginExecution ==
  /\ pc = "execute"
  /\ LET rawInvocations == toolPlan.toolInvocations
         filteredInvocations == SelectSeq(rawInvocations, IsSupported)
         parsedInvocations ==
           SelectSeq(filteredInvocations, toolInvocationSchemaInternal)
     IN IF ReturnsNull(parsedInvocations, filteredInvocations)
        THEN /\ pc' = "fallback"
             /\ UNCHANGED <<invocations, index>>
        ELSE /\ invocations' = parsedInvocations
             /\ index' = 1
             /\ pc' = "loop"
  /\ UNCHANGED <<coreMessages, searchMode, toolPlan, executedSteps, pending,
                 generated, trace, outcome>>
  /\ UNCHANGED <<normVars, sumVars, langVars, urlVars, domVars, listVars, insVars>>

\* variant: a rejected invocation ends the loop
SkipInvocation_EndsLoop ==
  /\ pc = "loop"
  /\ index <= Len(invocations)
  /\ parseInvocationParameters(invocations[index]) = NullValue
  /\ index' = Len(invocations) + 1
  /\ UNCHANGED <<pc, coreMessages, searchMode, toolPlan, invocations,
                 executedSteps, pending, generated, trace, outcome>>
  /\ UNCHANGED <<normVars, sumVars, langVars, urlVars, domVars, listVars, insVars>>

\* loop body when parseInvocationParameters returns null: continue
SkipInvocation ==
  /\ pc = "loop"
  /\ index <= Len(invocations)
  /\ parseInvocationParameters(invocations[index]) = NullValue
  /\ index' = index + 1
  /\ UNCHANGED <<pc, coreMessages, searchMode, toolPlan, invocations,
                 executedSteps, pending, generated, trace, outcome>>
  /\ UNCHANGED <<normVars, sumVars, langVars, urlVars, domVars, listVars, insVars>>

\* variant: runTool is started but not awaited
CallTool_NotAwaited ==
  /\ pc = "loop"
  /\ index <= Len(invocations)
  /\ LET invocation == invocations[index]
         parsed == parseInvocationParameters(invocation)
         toolCallId == NewToolCallId(generated)
         callAnnotation ==
           CallAnnotation(toolCallId, parsed, invocation.description)
     IN /\ parsed # NullValue
        /\ generated' = generated + 1
        /\ trace' = trace \o << WriteData(callAnnotation),
                                ToolStart("runTool", parsed.tool,
                                          parsed.parameters) >>
        /\ pending' = [callAnnotation |-> callAnnotation, parsed |-> parsed]
  /\ index' = index + 1
  /\ UNCHANGED <<pc, coreMessages, searchMode, toolPlan, invocations,
                 executedSteps, outcome>>
  /\ UNCHANGED <<normVars, sumVars, langVars, urlVars, domVars, listVars, insVars>>

\* loop body up to `await runTool(parsed)`
CallTool ==
  /\ pc = "loop"
  /\ index <= Len(invocations)
  /\ LET invocation == invocations[index]
         parsed == parseInvocationParameters(invocation)
         toolCallId == NewToolCallId(generated)
         callAnnotation ==
           CallAnnotation(toolCallId, parsed, invocation.description)
     IN /\ parsed # NullValue
        /\ generated' = generated + 1
        /\ trace' = trace \o << WriteData(callAnnotation),
                                ToolStart("runTool", parsed.tool,
                                          parsed.parameters) >>
        /\ pending' = [callAnnotation |-> callAnnotation, parsed |-> parsed]
  /\ pc' = "awaitTool"
  /\ UNCHANGED <<coreMessages, searchMode, toolPlan, invocations, index,
                 executedSteps, outcome>>
  /\ UNCHANGED <<normVars, sumVars, langVars, urlVars, domVars, listVars, insVars>>

\* variant: the step records the parameters the planner gave
ToolReturns_RawParameters ==
  /\ pc = "awaitTool"
  /\ \E n \in ResultSizes :
       LET invocation == invocations[index]
           parsed == pending.parsed
           result == ToolResult(parsed.tool, n)
       IN /\ trace' = trace \o
               << ToolEnd("runTool", [kind |-> "returned", result |-> result]),
                  WriteMessageAnnotation(
                    ResultAnnotation(pending.callAnnotation, result)) >>
          /\ executedSteps' = Append(executedSteps,
               [id |-> invocation.id,
                tool |-> parsed.tool,
                description |-> invocation.description,
                parameters |-> invocation.parameters,
                result |-> result,
                error |-> UndefinedValue])
  /\ pending' = NullValue
  /\ index' = index + 1
  /\ pc' = "loop"
  /\ UNCHANGED <<coreMessages, searchMode, toolPlan, invocations, generated,
                 outcome>>
  /\ UNCHANGED <<normVars, sumVars, langVars, urlVars, domVars, listVars, insVars>>

\* runTool resolved: result annotation, step pushed, next iteration
ToolReturns ==
  /\ pc = "awaitTool"
  /\ \E n \in ResultSizes :
       LET invocation == invocations[index]
           parsed == pending.parsed
           result == ToolResult(parsed.tool, n)
       IN /\ trace' = trace \o
               << ToolEnd("runTool", [kind |-> "returned", result |-> result]),
                  WriteMessageAnnotation(
                    ResultAnnotation(pending.callAnnotation, result)) >>
          /\ executedSteps' = Append(executedSteps,
               [id |-> invocation.id,
                tool |-> parsed.tool,
                description |-> invocation.description,
                parameters |-> parsed.parameters,
                result |-> result,
                error |-> UndefinedValue])
  /\ pending' = NullValue
  /\ index' = index + 1
  /\ pc' = "loop"
  /\ UNCHANGED <<coreMessages, searchMode, toolPlan, invocations, generated,
                 outcome>>
  /\ UNCHANGED <<normVars, sumVars, langVars, urlVars, domVars, listVars, insVars>>

\* variant: the thrown message is dropped
ErrorMessageOf_Dropped(error) == <<"Unknown tool execution error">>

\* `error instanceof Error ? error.message : 'Unknown tool execution error'`
ErrorMessageOf(error) ==
  IF error.kind = "Error" THEN error.message
  ELSE <<"Unknown tool execution error">>

\* variant: a rejected run leaves the planned execution for the fallback
ToolThrows_FallsBack ==
  /\ pc = "awaitTool"
  /\ \E error \in Throwables :
       LET invocation == invocations[index]
           parsed == pending.parsed
           message == ErrorMessageOf(error)
       IN /\ trace' = trace \o
               << ToolEnd("runTool", [kind |-> "threw", error |-> error]),
                  WriteMessageAnnotation(
                    ErrorAnnotation(pending.callAnnotation, message)) >>
          /\ executedSteps' = Append(executedSteps,
               [id |-> invocation.id,
                tool |-> parsed.tool,
                description |-> invocation.description,
                parameters |-> parsed.parameters,
                result |-> NullValue,
                error |-> StringValue(message)])
  /\ pending' = NullValue
  /\ index' = index + 1
  /\ pc' = "fallback"
  /\ UNCHANGED <<coreMessages, searchMode, toolPlan, invocations, generated,
                 outcome>>
  /\ UNCHANGED <<normVars, sumVars, langVars, urlVars, domVars, listVars, insVars>>

\* runTool rejected: error annotation, failed step pushed, next iteration
ToolThrows ==
  /\ pc = "awaitTool"
  /\ \E error \in Throwables :
       LET invocation == invocations[index]
           parsed == pending.parsed
           message == ErrorMessageOf(error)
       IN /\ trace' = trace \o
               << ToolEnd("runTool", [kind |-> "threw", error |-> error]),
                  WriteMessageAnnotation(
                    ErrorAnnotation(pending.callAnnotation, message)) >>
          /\ executedSteps' = Append(executedSteps,
               [id |-> invocation.id,
                tool |-> parsed.tool,
                description |-> invocation.description,
                parameters |-> parsed.parameters,
                result |-> NullValue,
                error |-> StringValue(message)])
  /\ pending' = NullValue
  /\ index' = index + 1
  /\ pc' = "loop"
  /\ UNCHANGED <<coreMessages, searchMode, toolPlan, invocations, generated,
                 outcome>>
  /\ UNCHANGED <<normVars, sumVars, langVars, urlVars, domVars, listVars, insVars>>

\* after the loop: summary, annotation and responder messages are returned
FinishExecution ==
  /\ pc = "loop"
  /\ index > Len(invocations)
  /\ outcome' = Returned(PlannedExecution(toolPlan, executedSteps,
                                        getLocalization(Language)))
  /\ pc' = "done"
  /\ UNCHANGED <<coreMessages, searchMode, toolPlan, invocations, index,
                 executedSteps, pending, generated, trace>>
  /\ UNCHANGED <<normVars, sumVars, langVars, urlVars, domVars, listVars, insVars>>

\* `!query` in fallbackSearch
NoQuery(query) == ~Truthy(query)

\* fallbackSearch up to `await search(query)`
FallbackSearch ==
  /\ pc = "fallback"
  /\ LET query == getLastUserText(coreMessages)
         toolCallId == NewToolCallId(generated)
         callAnnotation == FallbackCallAnnotation(toolCallId, query)
     IN IF NoQuery(query)
        THEN /\ outcome' = Returned(EmptyPair)
             /\ pc' = "done"
             /\ UNCHANGED <<pending, generated, trace>>
        ELSE /\ generated' = generated + 1
             /\ trace' = trace \o
                  << WriteData(callAnnotation),
                     ToolStart("fallbackSearch", "search",
                               [k \in {"query"} |-> StringValue(query)]) >>
             /\ pending' = [callAnnotation |-> callAnnotation, query |-> query]
             /\ pc' = "awaitSearch"
             /\ outcome' = outcome
  /\ UNCHANGED <<coreMessages, searchMode, toolPlan, invocations, index,
                 executedSteps>>
  /\ UNCHANGED <<normVars, sumVars, langVars, urlVars, domVars, listVars, insVars>>

\* variant: the fallback answers with the English bundle
FallbackSearchReturns_English ==
  /\ pc = "awaitSearch"
  /\ \E n \in ResultSizes :
       LET result == ToolResult("search", n)
           resultAnnotation == ResultAnnotation(pending.callAnnotation, result)
       IN /\ trace' = trace \o
               << ToolEnd("fallbackSearch",
                          [kind |-> "returned", result |-> result]),
                  WriteMessageAnnotation(resultAnnotation) >>
          /\ outcome' = Returned(
               FallbackExecution(resultAnnotation, pending.query, result,
                                 getLocalization("en")))
  /\ pending' = NullValue
  /\ pc' = "done"
  /\ UNCHANGED <<coreMessages, searchMode, toolPlan, invocations, index,
                 executedSteps, generated>>
  /\ UNCHANGED <<normVars, sumVars, langVars, urlVars, domVars, listVars, insVars>>

\* search(query) resolved inside fallbackSearch
FallbackSearchReturns ==
  /\ pc = "awaitSearch"
  /\ \E n \in ResultSizes :
       LET result == ToolResult("search", n)
           resultAnnotation == ResultAnnotation(pending.callAnnotation, result)
       IN /\ trace' = trace \o
               << ToolEnd("fallbackSearch",
                          [kind |-> "returned", result |-> result]),
                  WriteMessageAnnotation(resultAnnotation) >>
          /\ outcome' = Returned(
               FallbackExecution(resultAnnotation, pending.query, result,
                                 getLocalization(Language)))
  /\ pending' = NullValue
  /\ pc' = "done"
  /\ UNCHANGED <<coreMessages, searchMode, toolPlan, invocations, index,
                 executedSteps, generated>>
  /\ UNCHANGED <<normVars, sumVars, langVars, urlVars, domVars, listVars, insVars>>

\* search(query) rejected inside fallbackSearch: nothing catches it, so the
\* promise returned by executeToolCall rejects with the same error
FallbackSearchThrows ==
  /\ pc = "awaitSearch"
  /\ \E error \in Throwables :
       /\ trace' = Append(trace,
            ToolEnd("fallbackSearch", [kind |-> "threw", error |-> error]))
       /\ outcome' = Rejected(error)
  /\ pending' = NullValue
  /\ pc' = "done"
  /\ UNCHANGED <<coreMessages, searchMode, toolPlan, invocations, index,
                 executedSteps, generated>>
  /\ UNCHANGED <<normVars, sumVars, langVars, urlVars, domVars, listVars, insVars>>

Next ==
  \/ ExecuteToolCall
  \/ PlannerReturns
  \/ PlannerThrows
  \/ BeginExecution
  \/ SkipInvocation
  \/ CallTool
  \/ ToolReturns
  \/ ToolThrows
  \/ FinishExecution
  \/ FallbackSearch
  \/ FallbackSearchReturns
  \/ FallbackSearchThrows

Spec == Init /\ [][Next]_vars

PcValues ==
  {"start", "planning", "execute", "loop", "awaitTool", "fallback",
   "awaitSearch", "done"}

\* a step of a call that has not completed: every action of Next moves pc or
\* index, and one of them is enabled until pc is "done"
Advances == pc # "done" /\ pc' \in PcValues /\ index' \in {index, index + 1}

\* executeToolCall is one asynchronous call: a step that can be taken is
\* taken, and every planner, tool or search call it awaits returns or throws
SpecFair == Spec /\ WF_<<pc, index>>(Advances)


(***************************************************************************)
(* Normalizer harness: normalizeToolPlan applied once and twice to a plan  *)
(* drawn from a bounded set.                                               *)
(***************************************************************************)
NormIds ==
  { <<>>,
    <<"a">>,
    <<"a", "-", "2">>,
    <<" ", "a", " ", "b">>,
    <<"s", "t", "e", "p", "-", "2">> }

NormInvocationPool ==
  {Invocation(id, "search", <<"d">>, EmptyRecord) : id \in NormIds}
  \cup
  {Invocation(<<"a">>, tool, description, QueryAndNullUrl) :
     tool \in {"search", "none"}, description \in {<<>>, <<" ", "d", " ">>}}

NormPlanLists ==
  { <<>>,
    <<[step |-> <<" ", "s">>, detail |-> <<"t", " ">>]>>,
    <<[step |-> <<" ">>, detail |-> <<"t">>],
      [step |-> <<"s">>, detail |-> <<"t">>]>>,
    <<[step |-> <<"r">>, detail |-> <<"t">>],
      [step |-> <<"s">>, detail |-> <<"\n">>],
      [step |-> <<"s", " ">>, detail |-> <<" ", "u">>]>> }

NormFinalInstructions ==
  { <<>>, <<" ">>, <<"f", " ">>, DEFAULT_FINAL_RESPONSE_INSTRUCTION }

NormInputs ==
  { [plan |-> <<>>, toolInvocations |-> invs,
     finalResponseInstruction |-> <<"f">>] :
    invs \in SeqsUpTo(NormInvocationPool, MaxNormInvocations) }
  \cup
  { [plan |-> pl, toolInvocations |-> <<>>, finalResponseInstruction |-> f] :
    pl \in NormPlanLists, f \in NormFinalInstructions }

OrchIdle ==
  /\ pc = "off" /\ coreMessages = <<>> /\ searchMode = FALSE
  /\ toolPlan = NullValue /\ invocations = <<>> /\ index = 0
  /\ executedSteps = <<>> /\ pending = NullValue /\ generated = 0
  /\ trace = <<>> /\ outcome = Pending

InitNormalize ==
  /\ npInput \in NormInputs
  /\ npOnce = NullValue
  /\ npTwice = NullValue
  /\ npPc = "input"
  /\ OrchIdle
  /\ SumIdle
  /\ LangIdle
  /\ OtherIdle

NormalizeOnce ==
  /\ npPc = "input"
  /\ npOnce' = normalizeToolPlan(npInput)
  /\ npPc' = "once"
  /\ UNCHANGED <<npInput, npTwice>>
  /\ UNCHANGED <<orchVars, sumVars, langVars, urlVars, domVars, listVars, insVars>>

NormalizeTwice ==
  /\ npPc = "once"
  /\ npTwice' = normalizeToolPlan(npOnce)
  /\ npPc' = "twice"
  /\ UNCHANGED <<npInput, npOnce>>
  /\ UNCHANGED <<orchVars, sumVars, langVars, urlVars, domVars, listVars, insVars>>

NextNormalize == NormalizeOnce \/ NormalizeTwice

SpecNormalize == InitNormalize /\ [][NextNormalize]_vars

(***************************************************************************)
(* Summarizer harness: buildExecutionSummary applied to the executed steps *)
(* the loop of executePlannedTools can record.                             *)
(***************************************************************************)
OkStep(id, tool, n) ==
  [id |-> id, tool |-> tool, description |-> <<"d">> \o id,
   parameters |-> EmptyRecord, result |-> ToolResult(tool, n),
   error |-> UndefinedValue]

FailedStep(id, tool, message) ==
  [id |-> id, tool |-> tool, description |-> <<"d">> \o id,
   parameters |-> EmptyRecord, result |-> NullValue,
   error |-> StringValue(message)]

StepPool ==
  { OkStep(<<"a">>, "search", 2),
    OkStep(<<"b">>, "search", 4),
    OkStep(<<"c">>, "search", 0),
    OkStep(<<"d">>, "retrieve", 1),
    OkStep(<<"e">>, "videoSearch", 2),
    FailedStep(<<"f">>, "search", <<"t", "i", "m", "e", "o", "u", "t">>),
    FailedStep(<<"g">>, "retrieve", <<>>) }

SummaryLanguages == {"en", "ja"}

InitSummary ==
  /\ sumSteps \in SeqsUpTo(StepPool, MaxSteps)
  /\ sumLanguage \in SummaryLanguages
  /\ sumSummary = NullValue
  /\ sumPc = "input"
  /\ OrchIdle
  /\ NormIdle
  /\ LangIdle
  /\ OtherIdle

Summarize ==
  /\ sumPc = "input"
  /\ sumSummary' = buildExecutionSummary(sumSteps, getLocalization(sumLanguage))
  /\ sumPc' = "summarized"
  /\ UNCHANGED <<sumSteps, sumLanguage>>
  /\ UNCHANGED <<orchVars, normVars, langVars, urlVars, domVars, listVars, insVars>>

NextSummary == Summarize

SpecSummary == InitSummary /\ [][NextSummary]_vars

(***************************************************************************)
(* Result harness: buildExecutionSummary applied to steps whose results    *)
(* differ in the number of items and in the length of their content.       *)
(***************************************************************************)
\* a content of n characters without whitespace
Filled(n) == [i \in 1..n |-> "x"]

\* a content of n + 1 characters that ends with two spaces: n characters
\* once its whitespace is collapsed
Padded(n) == [i \in 1..(n + 1) |-> IF i < n THEN "x" ELSE " "]

ItemWith(name, content) ==
  [title |-> <<"T", name>>, url |-> <<"u", name>>, content |-> content]

StepWith(id, tool, result) ==
  [id |-> id, tool |-> tool, description |-> <<"d">> \o id,
   parameters |-> EmptyRecord, result |-> result, error |-> UndefinedValue]

ResultStepPool ==
  { StepWith(<<"m">>, "search",
             [results |-> << ItemWith("L1", Filled(SearchSnippetLength + 1)),
                             ItemWith("L2", Padded(SearchSnippetLength)),
                             ItemWith("L3", Filled(SearchSnippetLength)),
                             ItemOf(4) >>]),
    StepWith(<<"n">>, "retrieve",
             [results |-> << ItemWith("L4", Filled(RetrieveSnippetLength + 1)),
                             ItemOf(2) >>]),
    StepWith(<<"o">>, "retrieve",
             [results |-> << ItemWith("L5", Padded(RetrieveSnippetLength)) >>]),
    StepWith(<<"p">>, "retrieve",
             [results |-> << ItemWith("L6", Filled(RetrieveSnippetLength)) >>]),
    OkStep(<<"q">>, "retrieve", 0),
    StepWith(<<"r">>, "retrieve", NullValue),
    OkStep(<<"s">>, "videoSearch", 4),
    OkStep(<<"t">>, "videoSearch", 0),
    StepWith(<<"v">>, "videoSearch", NullValue),
    OkStep(<<"w">>, "search", 2),
    OkStep(<<"y">>, "search", 0),
    StepWith(<<"z">>, "search", NullValue),
    FailedStep(<<"f">>, "search", <<"t", "i", "m", "e", "o", "u", "t">>) }

InitResults ==
  /\ sumSteps \in SeqsUpTo(ResultStepPool, MaxResultSteps)
  /\ sumLanguage \in SummaryLanguages
  /\ sumSummary = NullValue
  /\ sumPc = "input"
  /\ OrchIdle
  /\ NormIdle
  /\ LangIdle
  /\ OtherIdle

SpecResults == InitResults /\ [][NextSummary]_vars

(***************************************************************************)
(* Instruction harness: the planner's plan goes through normalizeToolPlan  *)
(* (buildToolPlan) and then through the end of executePlannedTools.        *)
(***************************************************************************)
CustomInstruction == <<"f", " ", "g">>

InstructionInputs ==
  { <<>>, <<" ">>, <<"\n", " ">>,
    CustomInstruction,
    <<" ">> \o CustomInstruction \o <<"\n">>,
    DEFAULT_FINAL_RESPONSE_INSTRUCTION,
    <<" ">> \o DEFAULT_FINAL_RESPONSE_INSTRUCTION \o <<" ">>,
    Phrase("defaultFinalInstruction", "en") }

InstructionPlans ==
  { [plan |-> <<[step |-> <<"s">>, detail |-> <<"t">>]>>,
     toolInvocations |-> <<>>,
     finalResponseInstruction |-> f] : f \in InstructionInputs }

InstructionSteps ==
  { <<>>,
    <<OkStep(<<"a">>, "search", 2)>>,
    <<FailedStep(<<"f">>, "search", <<"t", "i", "m", "e", "o", "u", "t">>)>> }

InitInstruction ==
  /\ insPlan \in InstructionPlans
  /\ insLanguage \in SummaryLanguages
  /\ insSteps \in InstructionSteps
  /\ insNormalized = NullValue
  /\ insOutput = NullValue
  /\ insPc = "planned"
  /\ OrchIdle
  /\ NormIdle
  /\ SumIdle
  /\ LangIdle
  /\ UrlIdle
  /\ DomIdle
  /\ ListIdle

\* buildToolPlan returns normalizeToolPlan(plan)
NormalizePlan ==
  /\ insPc = "planned"
  /\ insNormalized' = normalizeToolPlan(insPlan)
  /\ insPc' = "normalized"
  /\ UNCHANGED <<insPlan, insLanguage, insSteps, insOutput>>
  /\ UNCHANGED <<orchVars, normVars, sumVars, langVars, urlVars, domVars,
                 listVars>>

\* the end of executePlannedTools, from getPlanFinalInstruction on
Respond ==
  /\ insPc = "normalized"
  /\ insOutput' = PlannedExecution(insNormalized, insSteps,
                                   getLocalization(insLanguage))
  /\ insPc' = "responded"
  /\ UNCHANGED <<insPlan, insNormalized, insLanguage, insSteps>>
  /\ UNCHANGED <<orchVars, normVars, sumVars, langVars, urlVars, domVars,
                 listVars>>

NextInstruction == NormalizePlan \/ Respond

SpecInstruction == InitInstruction /\ [][NextInstruction]_vars

(***************************************************************************)
(* Language harness: detectLanguageFromText applied to a text, then        *)
(* getLocalization applied to a tag.                                       *)
(***************************************************************************)
DetectTokens ==
  { <<"U+044F">>, <<"U+4E2D">>, <<"U+3042">>, <<"U+D55C">>, <<"U+0639">>,
    <<"U+00E3">>, <<"U+00C3">>, <<"U+00E9">>, <<"U+00EC">>,
    <<"n", "a", "o">>, <<"i", "l">>, <<"L", "E">>, <<"d", "e", "r">>,
    <<"e", "l">>, <<"l", "a">>, <<"q">>, <<"q", "i", "l">>,
    <<"e", "s", "t", "U+00E1">>, <<"f", "U+00FC", "r">> }

\* texts of at most MaxTokens tokens separated by one space
DetectTexts ==
  {Join(tokens, <<" ">>) : tokens \in SeqsUpTo(DetectTokens, MaxTokens)}

\* tags outside SupportedLanguage
UnrecognizedTags == {"xx", "pt-BR"}

InitLanguage ==
  /\ dlText \in DetectTexts
  /\ dlTag = ""
  /\ dlRequested = ""
  /\ dlBundle = NullValue
  /\ dlPc = "input"
  /\ OrchIdle
  /\ NormIdle
  /\ SumIdle
  /\ OtherIdle

DetectLanguage ==
  /\ dlPc = "input"
  /\ dlTag' = detectLanguageFromText(dlText)
  /\ dlPc' = "detected"
  /\ UNCHANGED <<dlText, dlRequested, dlBundle>>
  /\ UNCHANGED <<orchVars, normVars, sumVars, urlVars, domVars, listVars, insVars>>

GetLocalization ==
  /\ dlPc = "detected"
  /\ \E tag \in {dlTag} \cup UnrecognizedTags :
       /\ dlRequested' = tag
       /\ dlBundle' = getLocalization(tag)
  /\ dlPc' = "localized"
  /\ UNCHANGED <<dlText, dlTag>>
  /\ UNCHANGED <<orchVars, normVars, sumVars, urlVars, domVars, listVars, insVars>>

NextLanguage == DetectLanguage \/ GetLocalization

SpecLanguage == InitLanguage /\ [][NextLanguage]_vars

(***************************************************************************)
(* Base URL resolution: the environment changes between calls of           *)
(* getBaseUrl, getBaseUrlString, getBaseUrlFromHeaders and                 *)
(* resetBaseUrlCache.                                                      *)
(***************************************************************************)
ExampleUrl == <<"https", "://", "example.test">>

SecondaryUrl == <<"https", "://", "secondary.test">>

HeaderUrl == <<"https", "://", "header.example", "/path?q=1">>

\* a text that is neither a URL nor a host name
NotAUrl == <<"not a url">>

Env(publicBaseUrl, baseUrl, publicVercelUrl, vercelUrl, phase) ==
  [NEXT_PUBLIC_BASE_URL |-> publicBaseUrl, BASE_URL |-> baseUrl,
   NEXT_PUBLIC_VERCEL_URL |-> publicVercelUrl, VERCEL_URL |-> vercelUrl,
   NEXT_PHASE |-> phase]

EmptyEnv == Env(<<>>, <<>>, <<>>, <<>>, "")

LocalUrl == <<"http", "://", "localhost", ":", "3000">>

\* the environments a run moves between
Environments ==
  { EmptyEnv,
    Env(<<>>, ExampleUrl \o <<",", " ">> \o SecondaryUrl, <<>>, <<>>, ""),
    Env(<<>>, NotAUrl \o <<",">> \o SecondaryUrl, <<>>, <<"header.example">>, ""),
    Env(SecondaryUrl, ExampleUrl, <<>>, <<>>, ""),
    Env(<<" ">>, ExampleUrl, <<>>, <<"header.example">>, ""),
    Env(<<>>, <<>>, <<>>, <<"header.example">>, ""),
    Env(<<>>, <<>>, LocalUrl, <<"header.example">>, "phase-export"),
    Env(<<>>, <<"10.0.0.1", ":", "99999">>, <<>>, NotAUrl, ""),
    Env(<<>>, <<"EXAMPLE.test", ":", "3000">>, <<>>, <<>>, "phase-export"),
    Env(<<>>, <<"HTTPS", "://", "EXAMPLE.test", ":", "443", "/path?q=1">>,
        <<>>, <<" ">>, "") }

HeaderNames ==
  {"x-base-url", "x-url", "forwarded", "x-forwarded-proto", "x-protocol",
   "x-forwarded-port", "x-port", "x-forwarded-host", "x-host", "host"}

\* new Headers(init)
Headers(init) ==
  [name \in HeaderNames |-> IF name \in DOMAIN init THEN init[name] ELSE <<>>]

NoInit == [name \in {} |-> <<>>]

HeaderLists ==
  { Headers(NoInit),
    Headers(("x-base-url" :> HeaderUrl) @@ ("host" :> <<"example.test">>)
              @@ ("x-url" :> SecondaryUrl)),
    Headers(("host" :> <<"EXAMPLE.test">>) @@ ("x-forwarded-proto" :> <<"https">>)),
    Headers(("forwarded" :> <<"for", "=", "not a url", ";", "HOST", "=", "\"",
                              "secondary.test", "\"", ";", "proto", "=", "http">>)
              @@ ("x-forwarded-port" :> <<"3000">>)
              @@ ("host" :> <<"header.example">>)),
    Headers(("x-url" :> <<"https", "://", "header.example">>)
              @@ ("x-host" :> <<"localhost">>) @@ ("x-port" :> <<"80">>)
              @@ ("x-protocol" :> <<"HTTPS", ":">>)),
    Headers(("x-base-url" :> NotAUrl)
              @@ ("x-forwarded-host" :> <<"10.0.0.1", ":", "99999">>)),
    Headers(("x-base-url" :> <<"localhost", ":", "3000">>)
              @@ ("host" :> <<"header.example", ",", " ", "example.test">>)
              @@ ("x-forwarded-port" :> <<"443">>)
              @@ ("x-forwarded-proto" :> <<"https">>)),
    Headers(("host" :> <<"localhost", ":", "3000">>)),
    Headers(("x-host" :> <<"header.example">>)) }

ProvidedHeaders ==
  {NoHeaders, RejectedHeaders} \cup {HeaderList(h) : h \in HeaderLists}

\* what nextHeaders() does: throws outside a request, or returns the
\* headers of the request
NextHeaders ==
  { [kind |-> "throws"], HeaderList(Headers(NoInit)),
    HeaderList(Headers(("host" :> <<"secondary.test">>))) }

InitUrl ==
  /\ urlEnv = EmptyEnv
  /\ urlCache = EmptyCache
  /\ urlCall = NullValue
  /\ urlFresh = FALSE
  /\ urlCalls = 0
  /\ urlPc = "idle"
  /\ OrchIdle
  /\ NormIdle
  /\ SumIdle
  /\ LangIdle
  /\ DomIdle
  /\ ListIdle
  /\ InsIdle

\* assignments to and deletions from process.env between two calls
SetEnv ==
  /\ urlPc \in {"idle", "returned"}
  /\ \E env \in Environments : env # urlEnv /\ urlEnv' = env
  /\ urlCall' = NullValue
  /\ urlPc' = "idle"
  /\ UNCHANGED <<urlCache, urlFresh, urlCalls>>
  /\ UNCHANGED <<orchVars, normVars, sumVars, langVars, domVars, listVars, insVars>>

Call(op, providedHeaders, next, returned) ==
  [op |-> op, providedHeaders |-> providedHeaders, next |-> next,
   value |-> returned.value, fresh |-> urlFresh]

\* the call returns: its value is recorded and the module's cache is the one
\* the call left
Returns(op, providedHeaders, next, returned) ==
  /\ urlCall' = Call(op, providedHeaders, next, returned)
  /\ urlCache' = returned.cache

GetBaseUrl ==
  /\ urlPc \in {"idle", "returned"}
  /\ urlCalls < MaxCalls
  /\ urlCalls' = urlCalls + 1
  /\ \E providedHeaders \in ProvidedHeaders : \E next \in NextHeaders :
       Returns("getBaseUrl", providedHeaders, next,
               getBaseUrl(providedHeaders, next, urlEnv, urlCache))
  /\ urlFresh' = FALSE
  /\ urlPc' = "returned"
  /\ UNCHANGED urlEnv
  /\ UNCHANGED <<orchVars, normVars, sumVars, langVars, domVars, listVars, insVars>>

GetBaseUrlString ==
  /\ urlPc \in {"idle", "returned"}
  /\ urlCalls < MaxCalls
  /\ urlCalls' = urlCalls + 1
  /\ \E providedHeaders \in ProvidedHeaders : \E next \in NextHeaders :
       Returns("getBaseUrlString", providedHeaders, next,
               getBaseUrlString(providedHeaders, next, urlEnv, urlCache))
  /\ urlFresh' = FALSE
  /\ urlPc' = "returned"
  /\ UNCHANGED urlEnv
  /\ UNCHANGED <<orchVars, normVars, sumVars, langVars, domVars, listVars, insVars>>

GetBaseUrlFromHeaders ==
  /\ urlPc \in {"idle", "returned"}
  /\ urlCalls < MaxCalls
  /\ urlCalls' = urlCalls + 1
  /\ \E providedHeaders \in ProvidedHeaders : \E next \in NextHeaders :
       Returns("getBaseUrlFromHeaders", providedHeaders, next,
               getBaseUrlFromHeaders(providedHeaders, next, urlEnv, urlCache))
  /\ urlPc' = "returned"
  /\ UNCHANGED <<urlEnv, urlFresh>>
  /\ UNCHANGED <<orchVars, normVars, sumVars, langVars, domVars, listVars, insVars>>

\* variant: the reset keeps the memoised values and marks them as read from
\* the current environment
resetBaseUrlCache_KeepsValues(env, cache) ==
  [cache EXCEPT !.cachedBaseUrlEnv = StringValue(readBaseUrlEnvValue(env)),
                !.cachedDeploymentUrlEnv =
                   StringValue(readDeploymentUrlEnvValue(env))]

resetBaseUrlCache(env, cache) ==
  [cache EXCEPT !.cachedBaseUrlEnv = UndefinedValue,
                !.cachedBaseUrlCandidates = UndefinedValue,
                !.cachedDeploymentUrlEnv = UndefinedValue,
                !.cachedDeploymentUrl = UndefinedValue]

ResetBaseUrlCache ==
  /\ urlPc \in {"idle", "returned"}
  /\ urlCache' = resetBaseUrlCache(urlEnv, urlCache)
  /\ urlFresh' = TRUE
  /\ urlCall' = NullValue
  /\ urlPc' = "idle"
  /\ UNCHANGED <<urlEnv, urlCalls>>
  /\ UNCHANGED <<orchVars, normVars, sumVars, langVars, domVars, listVars, insVars>>

NextUrl ==
  \/ SetEnv
  \/ GetBaseUrl
  \/ GetBaseUrlString
  \/ GetBaseUrlFromHeaders
  \/ ResetBaseUrlCache

SpecUrl == InitUrl /\ [][NextUrl]_vars

(***************************************************************************)
(* normaliseDomainList, applied to an input and then to its own output.    *)
(***************************************************************************)
ListTokens == {"a.com", "A.com", "b.com", "*.", "https:", "/", " ", ",", "\n"}

ListTexts == SeqsUpTo(ListTokens, MaxListTokens)

NumberValue == [kind |-> "number"]

ListItems ==
  { NumberValue, StringValue(<<>>), StringValue(<<"a.com">>),
    StringValue(<<" ", "A.com", " ">>), StringValue(<<"a.com", ",", "b.com">>),
    StringValue(<<"HTTPS:", "/", "/", "b.com", "/", "\n", "a.com">>),
    StringValue(<<"*.", "http:", "/", "/", "a.com", "?">>) }

ArrayInputs == {ArrayValue(items) : items \in SeqsUpTo(ListItems, MaxItems)}

ListInputs ==
  {StringValue(text) : text \in ListTexts} \cup ArrayInputs
    \cup {NullValue, UndefinedValue, NumberValue, [kind |-> "object"]}

\* the output, an array of strings, as an input
AsInput(list) == ArrayValue([i \in 1..Len(list) |-> StringValue(list[i])])

InitDomainList ==
  /\ ndInput \in ListInputs
  /\ ndOnce = NullValue
  /\ ndTwice = NullValue
  /\ ndPc = "input"
  /\ OrchIdle
  /\ NormIdle
  /\ SumIdle
  /\ LangIdle
  /\ UrlIdle
  /\ DomIdle
  /\ InsIdle

NormaliseDomainListOnce ==
  /\ ndPc = "input"
  /\ ndOnce' = normaliseDomainList(ndInput)
  /\ ndPc' = "once"
  /\ UNCHANGED <<ndInput, ndTwice>>
  /\ UNCHANGED <<orchVars, normVars, sumVars, langVars, urlVars, domVars, insVars>>

NormaliseDomainListTwice ==
  /\ ndPc = "once"
  /\ ndTwice' = normaliseDomainList(AsInput(ndOnce))
  /\ ndPc' = "twice"
  /\ UNCHANGED <<ndInput, ndOnce>>
  /\ UNCHANGED <<orchVars, normVars, sumVars, langVars, urlVars, domVars, insVars>>

NextDomainList == NormaliseDomainListOnce \/ NormaliseDomainListTwice

SpecDomainList == InitDomainList /\ [][NextDomainList]_vars

(***************************************************************************)
(* Domain configuration: the environment changes between calls of          *)
(* getDomainConfiguration, appendDomainInstructions and                    *)
(* resetDomainConfigurationCache.                                          *)
(***************************************************************************)
DomainEnvNames ==
  {"DEFAULT_INCLUDE_DOMAINS", "NEXT_PUBLIC_DEFAULT_INCLUDE_DOMAINS",
   "DEFAULT_EXCLUDE_DOMAINS", "NEXT_PUBLIC_DEFAULT_EXCLUDE_DOMAINS",
   "DOMAIN_AGENT_INSTRUCTIONS", "NEXT_PUBLIC_DOMAIN_AGENT_INSTRUCTIONS"}

\* the values a variable takes; <<>> is the unset variable
DomainEnvValues(name) ==
  CASE name = "DEFAULT_INCLUDE_DOMAINS" ->
         { <<>>, <<" ">>, <<"a.com", ",", " ", "A.com", "\n", "b.com">> }
    [] name = "NEXT_PUBLIC_DEFAULT_INCLUDE_DOMAINS" -> { <<>>, <<"b.com">> }
    [] name = "DEFAULT_EXCLUDE_DOMAINS" -> { <<>>, <<"b.com">> }
    [] name = "NEXT_PUBLIC_DEFAULT_EXCLUDE_DOMAINS" ->
         { <<>>, <<"a.com", "\n", "b.com">> }
    [] name = "DOMAIN_AGENT_INSTRUCTIONS" ->
         { <<>>, <<"\n">>, <<" ", "Focus on official documentation first.">> }
    [] name = "NEXT_PUBLIC_DOMAIN_AGENT_INSTRUCTIONS" ->
         { <<>>, <<"Only cite information from example.com domains.">> }

NoDomainEnv == [name \in DomainEnvNames |-> <<>>]

BasePrompts == { <<>>, <<"Base prompt">>, <<"Base prompt", " ", "\n">> }

InitDomain ==
  /\ domEnv = NoDomainEnv
  /\ domCache = UndefinedValue
  /\ domCall = NullValue
  /\ domPc = "idle"
  /\ OrchIdle
  /\ NormIdle
  /\ SumIdle
  /\ LangIdle
  /\ UrlIdle
  /\ ListIdle
  /\ InsIdle

\* process.env[name] = value, or delete process.env[name]
SetDomainEnv ==
  /\ domPc \in {"idle", "returned"}
  /\ \E name \in DomainEnvNames : \E value \in DomainEnvValues(name) :
       /\ domEnv[name] # value
       /\ domEnv' = [domEnv EXCEPT ![name] = value]
  /\ domCall' = NullValue
  /\ domPc' = "idle"
  /\ UNCHANGED domCache
  /\ UNCHANGED <<orchVars, normVars, sumVars, langVars, urlVars, listVars, insVars>>

\* a call: its argument, its value, and whether it found the memo empty
DomainCall(op, basePrompt, value) ==
  [op |-> op, basePrompt |-> basePrompt, value |-> value,
   built |-> domCache = UndefinedValue]

GetDomainConfiguration ==
  /\ domPc \in {"idle", "returned"}
  /\ LET returned == getDomainConfiguration(domEnv, domCache)
     IN /\ domCall' = DomainCall("getDomainConfiguration", <<>>, returned.value)
        /\ domCache' = returned.cachedConfiguration
  /\ domPc' = "returned"
  /\ UNCHANGED domEnv
  /\ UNCHANGED <<orchVars, normVars, sumVars, langVars, urlVars, listVars, insVars>>

AppendDomainInstructions ==
  /\ domPc \in {"idle", "returned"}
  /\ \E basePrompt \in BasePrompts :
       LET returned == appendDomainInstructions(basePrompt, domEnv, domCache)
       IN /\ domCall' =
               DomainCall("appendDomainInstructions", basePrompt, returned.value)
          /\ domCache' = returned.cachedConfiguration
  /\ domPc' = "returned"
  /\ UNCHANGED domEnv
  /\ UNCHANGED <<orchVars, normVars, sumVars, langVars, urlVars, listVars, insVars>>

ResetDomainConfigurationCache ==
  /\ domPc \in {"idle", "returned"}
  /\ domCache' = resetDomainConfigurationCache
  /\ domCall' = NullValue
  /\ domPc' = "idle"
  /\ UNCHANGED domEnv
  /\ UNCHANGED <<orchVars, normVars, sumVars, langVars, urlVars, listVars, insVars>>

NextDomain ==
  \/ SetDomainEnv
  \/ GetDomainConfiguration
  \/ AppendDomainInstructions
  \/ ResetDomainConfigurationCache

SpecDomain == InitDomain /\ [][NextDomain]_vars


(***************************************************************************)
(* Observations on the trace.                                              *)
(***************************************************************************)
Indexed == [p \in DOMAIN trace |-> [pos |-> p, entry |-> trace[p]]]

IsWrite(x) == x.entry.type = "write"
IsCallWrite(x) ==
  x.entry.type = "write" /\ x.entry.annotation.data.state = "call"
IsResultWrite(x) ==
  x.entry.type = "write" /\ x.entry.annotation.data.state = "result"
IsRunStart(x) == x.entry.type = "toolStart" /\ x.entry.caller = "runTool"
IsRunEnd(x) == x.entry.type = "toolEnd" /\ x.entry.caller = "runTool"
IsSearchStart(x) ==
  x.entry.type = "toolStart" /\ x.entry.caller = "fallbackSearch"
IsSearchEnd(x) ==
  x.entry.type = "toolEnd" /\ x.entry.caller = "fallbackSearch"
IsPlannerCall(x) == x.entry.type = "plannerCall"
IsPlannerThrow(x) == x.entry.type = "plannerThrow"

\* the progress-event sink: every write, in order
Sink == SelectSeq(Indexed, IsWrite)
CallWrites == SelectSeq(Indexed, IsCallWrite)
ResultWrites == SelectSeq(Indexed, IsResultWrite)
RunStarts == SelectSeq(Indexed, IsRunStart)
RunEnds == SelectSeq(Indexed, IsRunEnd)
SearchStarts == SelectSeq(Indexed, IsSearchStart)
SearchEnds == SelectSeq(Indexed, IsSearchEnd)
PlannerCalls == SelectSeq(Indexed, IsPlannerCall)

ToolCallIdOf(x) == x.entry.annotation.data.toolCallId

PlannerThrew == SelectSeq(Indexed, IsPlannerThrow) # <<>>
PlannerReturned == toolPlan # NullValue

LastUserText == getLastUserText(coreMessages)

IsValidated(invocation) == parseInvocationParameters(invocation) # NullValue

\* the invocations of the loop that pass parameter validation, in plan order
Validated == SelectSeq(invocations, IsValidated)

\* how many of the first k invocations pass parameter validation
ValidatedUpTo(k) == Len(SelectSeq(SubSeq(invocations, 1, k), IsValidated))

\* the loop has handled invocations 1 .. LoopDone
LoopDone == IF pc = "awaitTool" THEN index - 1
            ELSE IF index = 0 THEN 0 ELSE index - 1

OnPlannedPath == pc \in {"loop", "awaitTool"} \/ (pc = "done" /\ index > 0)

PlannedDone == pc = "done" /\ index > 0

\* runs in flight after the first n trace entries
InFlightAfter(n) ==
  Len(SelectSeq(SubSeq(trace, 1, n), LAMBDA e : e.type = "toolStart"))
  - Len(SelectSeq(SubSeq(trace, 1, n), LAMBDA e : e.type = "toolEnd"))

(***************************************************************************)
(* C1: every invocation that passes parameter validation gets exactly one  *)
(* 'call' event written before its tool run starts and exactly one         *)
(* 'result' event written after the run completes (returned or threw);     *)
(* the result event carries the toolCallId of its call event, and the      *)
(* toolCallIds of different invocations are pairwise distinct.             *)
(***************************************************************************)
C1_CallResultPairs ==
  OnPlannedPath =>
    LET calls == CallWrites
        results == ResultWrites
        starts == RunStarts
        ends == RunEnds
        validatedSoFar == ValidatedUpTo(LoopDone)
    IN /\ Len(starts) = validatedSoFar + (IF pc = "awaitTool" THEN 1 ELSE 0)
       /\ Len(ends) = validatedSoFar
       /\ Len(calls) = Len(starts)
       /\ Len(results) = Len(ends)
       /\ \A k \in 1..Len(starts) :
            /\ calls[k].pos < starts[k].pos
            /\ calls[k].entry.method = "writeData"
       /\ \A k \in 1..Len(ends) :
            /\ starts[k].pos < ends[k].pos
            /\ ends[k].pos < results[k].pos
            /\ results[k].entry.method = "writeMessageAnnotation"
            /\ ToolCallIdOf(results[k]) = ToolCallIdOf(calls[k])
       /\ \A j, k \in 1..Len(calls) :
            j # k => ToolCallIdOf(calls[j]) # ToolCallIdOf(calls[k])

\* two validated invocations ran to completion, the first one by throwing
C1_Witness ==
  /\ PlannedDone
  /\ Len(ResultWrites) = 2
  /\ RunEnds[1].entry.outcome.kind = "threw"
  /\ RunEnds[2].entry.outcome.kind = "returned"

(***************************************************************************)
(* C2: tool runs are strictly sequential: never two runs in flight, and    *)
(* the sink reads call(i1), result(i1), call(i2), result(i2), ... for the  *)
(* validated invocations i1, i2, ... in plan order.                        *)
(***************************************************************************)
C2_StrictlySequential ==
  /\ \A n \in 0..Len(trace) : InFlightAfter(n) \in {0, 1}
  /\ OnPlannedPath =>
       LET sink == Sink
           validated == Validated
       IN /\ \A k \in 1..Len(sink) :
               sink[k].entry.annotation.data.state =
                 (IF k % 2 = 1 THEN "call" ELSE "result")
          /\ \A k \in 1..Len(sink) :
               LET j == (k + 1) \div 2
                   data == sink[k].entry.annotation.data
               IN /\ j <= Len(validated)
                  /\ LET parsed == parseInvocationParameters(validated[j])
                     IN /\ data.toolName = parsed.tool
                        /\ data.args = JSONstringify(parsed.parameters)
                        /\ data.description = validated[j].description
          /\ \A k \in 1..Len(sink) :
               k % 2 = 0 => ToolCallIdOf(sink[k]) = ToolCallIdOf(sink[k - 1])

\* two different validated invocations were run one after the other
C2_Witness ==
  /\ PlannedDone
  /\ Len(Sink) = 4
  /\ Sink[1].entry.annotation.data.toolName = "videoSearch"
  /\ Sink[3].entry.annotation.data.toolName = "search"

(***************************************************************************)
(* C3: a tool run that throws does not abort the batch: every validated    *)
(* invocation is run exactly once, and each run that threw is recorded as  *)
(* an ExecutedStep with result null and error set to the thrown message.   *)
(***************************************************************************)
C3_ThrowDoesNotAbort ==
  LET starts == RunStarts
      ends == RunEnds
      validated == Validated
  IN /\ OnPlannedPath =>
          /\ Len(executedSteps) = Len(ends)
          /\ \A k \in 1..Len(ends) :
               LET ended == ends[k].entry.outcome IN
               ended.kind = "threw" =>
                 /\ executedSteps[k].result = NullValue
                 /\ ended.error.kind = "Error" =>
                      executedSteps[k].error = StringValue(ended.error.message)
                 /\ ended.error.kind # "Error" =>
                      executedSteps[k].error =
                        StringValue(<<"Unknown tool execution error">>)
     /\ PlannedDone =>
          /\ Len(starts) = Len(validated)
          /\ Len(ends) = Len(validated)
          /\ \A k \in 1..Len(validated) :
               LET parsed == parseInvocationParameters(validated[k]) IN
               /\ starts[k].entry.tool = parsed.tool
               /\ starts[k].entry.args = parsed.parameters

\* the first of two runs threw "timeout" and the second was still run
C3_Witness ==
  /\ PlannedDone
  /\ Len(RunEnds) = 2
  /\ RunEnds[1].entry.outcome.kind = "threw"
  /\ RunEnds[1].entry.outcome.error.kind = "Error"
  /\ RunEnds[1].entry.outcome.error.message # <<>>
  /\ executedSteps[1].error = StringValue(RunEnds[1].entry.outcome.error.message)
  /\ executedSteps[2].error = UndefinedValue

(***************************************************************************)
(* C4: executeToolCall never rejects; when the fallback search itself      *)
(* throws it returns the empty pair.                                       *)
(***************************************************************************)
C4_NeverRejects ==
  /\ outcome.status # "rejected"
  /\ (pc = "done" /\ SearchEnds # <<>>
        /\ SearchEnds[1].entry.outcome.kind = "threw")
       => outcome = Returned(EmptyPair)

(***************************************************************************)
(* C5 (as stated): when the planner returns a plan with no supported-tool  *)
(* invocation and the last user text is non-empty, the fallback search is  *)
(* performed and its output returned.                                      *)
(***************************************************************************)
NoSupportedInvocation ==
  /\ PlannerReturned
  /\ SelectSeq(toolPlan.toolInvocations, IsSupported) = <<>>

IsFallbackOutput(value) ==
  /\ value.toolCallDataAnnotation # NullValue
  /\ Len(value.toolCallMessages) = 3
  /\ value.toolCallDataAnnotation.content.data.toolName = "search"

IsPlannedOutput(value) ==
  /\ value.toolCallDataAnnotation # NullValue
  /\ Len(value.toolCallMessages) = 3
  /\ value.toolCallDataAnnotation.content.data.toolCallId
       = <<"agent_pipeline">>

AllFailValidation ==
  /\ PlannerReturned
  /\ SelectSeq(toolPlan.toolInvocations, IsSupported) # <<>>
  /\ SelectSeq(SelectSeq(toolPlan.toolInvocations, IsSupported), IsValidated)
       = <<>>

C6_AllInvalidFallsBack ==
  (pc = "done" /\ AllFailValidation /\ LastUserText # <<>>) =>
    /\ Len(SearchStarts) = 1
    /\ outcome.status = "returned" => IsFallbackOutput(outcome.value)

(***************************************************************************)
(* C7: when buildToolPlan throws and the last user text is non-empty, no   *)
(* planned tool is run, exactly one search call is made whose query is the *)
(* last user text, and the planner's error does not reach the caller.      *)
(***************************************************************************)
C7_PlanningFailureFallsBack ==
  (PlannerThrew /\ LastUserText # <<>>) =>
    /\ RunStarts = <<>>
    /\ Len(SearchStarts) <= 1
    /\ pc \in {"awaitSearch", "done"} =>
         /\ Len(SearchStarts) = 1
         /\ SearchStarts[1].entry.tool = "search"
         /\ SearchStarts[1].entry.args =
              [k \in {"query"} |-> StringValue(LastUserText)]
    /\ outcome.status = "rejected" => outcome.error # PlannerError

\* the planner threw, the single search ran and its output was returned
C7_Witness ==
  /\ PlannerThrew
  /\ LastUserText = <<"q", "\n", "r">>
  /\ pc = "done"
  /\ outcome.status = "returned"
  /\ IsFallbackOutput(outcome.value)

(***************************************************************************)
(* C8: when planning fails and the last user text is empty or only         *)
(* whitespace, executeToolCall returns the empty pair without attempting   *)
(* any search and without writing any event.                               *)
(***************************************************************************)
C8_BlankTextReturnsEmpty ==
  (PlannerThrew /\ Trim(LastUserText) = <<>>) =>
    /\ SearchStarts = <<>>
    /\ Sink = <<>>
    /\ pc = "done" => outcome = Returned(EmptyPair)

(***************************************************************************)
(* C9: when searchMode is false, executeToolCall returns the empty pair    *)
(* immediately: the planner is not called, no tool is run and nothing is   *)
(* written to the sink.                                                    *)
(***************************************************************************)
C9_DisabledReturnsEmpty ==
  (pc # "off" /\ ~searchMode) =>
    /\ pc \in {"start", "done"}
    /\ trace = <<>>
    /\ PlannerCalls = <<>>
    /\ Sink = <<>>
    /\ pc = "done" => outcome = Returned(EmptyPair)

C9_Witness == ~searchMode /\ pc = "done" /\ outcome = Returned(EmptyPair)

(***************************************************************************)
(* C10: normalizeToolPlan is idempotent: normalizing a normalized plan     *)
(* returns it unchanged, invocation ids included.                          *)
(***************************************************************************)
C10_Idempotent == npPc = "twice" => npTwice = npOnce


(***************************************************************************)
(* C11: the invocation ids of normalizeToolPlan's output are pairwise      *)
(* distinct, also when an input id already looks like a disambiguated id.  *)
(***************************************************************************)
C11_UniqueIds ==
  npPc \in {"once", "twice"} =>
    \A i, j \in 1..Len(npOnce.toolInvocations) :
      i # j => npOnce.toolInvocations[i].id # npOnce.toolInvocations[j].id

(***************************************************************************)
(* C12: for any sequence of executed steps, the sources returned by        *)
(* buildExecutionSummary carry the markers [1], [2], ..., [k] with no gap  *)
(* and no repeat, numbered globally across the steps, in step order and    *)
(* within a step in result order.                                          *)
(***************************************************************************)
\* the references a step lists: the first results of a run that succeeded
ListedBy(step) ==
  IF HasError(step) THEN <<>>
  ELSE IF step.tool = "videoSearch"
  THEN LET videos == step.result.videos
       IN [i \in 1..(IF Len(videos) < 3 THEN Len(videos) ELSE 3) |->
             [stepId |-> step.id, url |-> videos[i].link]]
  ELSE IF step.result = NullValue THEN <<>>
  ELSE LET results == step.result.results
           shown == IF step.tool = "retrieve" THEN 1 ELSE 3
       IN [i \in 1..(IF Len(results) < shown THEN Len(results) ELSE shown) |->
             [stepId |-> step.id, url |-> results[i].url]]

\* the traversal order: step by step, result by result
RECURSIVE Traversal(_)
Traversal(steps) ==
  IF steps = <<>> THEN <<>> ELSE ListedBy(Head(steps)) \o Traversal(Tail(steps))

C12_MarkersCountUp ==
  sumPc = "summarized" =>
    LET sources == sumSummary.sources
        expected == Traversal(sumSteps)
    IN /\ Len(sources) = Len(expected)
       /\ \A i \in 1..Len(sources) :
            /\ sources[i].marker = <<"[">> \o NumToStr(i) \o <<"]">>
            /\ sources[i].stepId = expected[i].stepId
            /\ sources[i].url = expected[i].url

\* a failed step, then two steps that each contribute sources
C12_Witness ==
  /\ sumPc = "summarized"
  /\ Len(sumSteps) = 3
  /\ HasError(sumSteps[1])
  /\ Len(sumSummary.sources) >= 4
  /\ sumSummary.sources[1].stepId = sumSteps[2].id
  /\ sumSummary.sources[Len(sumSummary.sources)].stepId = sumSteps[3].id

(***************************************************************************)
(* C13: no executed step that has an error contributes a source: for every *)
(* source of the execution summary, the step whose id equals the source's  *)
(* stepId has no error.                                                    *)
(***************************************************************************)
ReturnedSources ==
  outcome.value.toolCallDataAnnotation.content.data.result.json.sources

C13_FailedStepHasNoSource ==
  (pc = "done" /\ OnPlannedPath /\ outcome.status = "returned") =>
    \A i \in 1..Len(ReturnedSources) : \A j \in 1..Len(executedSteps) :
      executedSteps[j].id = ReturnedSources[i].stepId =>
        executedSteps[j].error = UndefinedValue

(***************************************************************************)
(* Reading rendered text.                                                  *)
(***************************************************************************)
StartsWithAt(text, sub, p) ==
  /\ p >= 1
  /\ p + Len(sub) - 1 <= Len(text)
  /\ SubSeq(text, p, p + Len(sub) - 1) = sub

Contains(text, sub) == \E p \in 1..(Len(text) + 1) : StartsWithAt(text, sub, p)

\* number of places where sub occurs in text
Occurrences(text, sub) ==
  Cardinality({p \in 1..Len(text) : StartsWithAt(text, sub, p)})

(***************************************************************************)
(* C14: for any tool run that throws an error with message m (the empty    *)
(* message included), the recorded step has error m, the summary renders   *)
(* the step with the localized failure phrase built from m and not with a  *)
(* 'no results' line, the overview reports the step as failed and not as   *)
(* completed successfully, and no marker is allocated for the step.        *)
(***************************************************************************)
RunThrew(x) == x.entry.outcome.kind = "threw"
RunReturned(x) == x.entry.outcome.kind = "returned"

\* the sources the first j runs can account for: the listed results of the
\* runs that returned
RECURSIVE SourcesOfReturned(_, _)
SourcesOfReturned(ends, j) ==
  IF j = 0 THEN 0
  ELSE SourcesOfReturned(ends, j - 1)
       + (IF RunReturned(ends[j])
          THEN LET result == ends[j].entry.outcome.result
                   n == IF "videos" \in DOMAIN result THEN Len(result.videos)
                        ELSE Len(result.results)
                   cap == IF executedSteps[j].tool = "retrieve" THEN 1 ELSE 3
               IN IF n < cap THEN n ELSE cap
          ELSE 0)

C14_ThrownMessageIsReported ==
  (pc = "done" /\ OnPlannedPath /\ outcome.status = "returned") =>
    LET ends == RunEnds
        localization == getLocalization(Language)
        overview == outcome.value.toolCallMessages[1].content
        summary == outcome.value.toolCallMessages[2].content
    IN /\ Len(executedSteps) = Len(ends)
       /\ \A j \in 1..Len(ends) :
            (RunThrew(ends[j]) /\ ends[j].entry.outcome.error.kind = "Error") =>
              LET m == ends[j].entry.outcome.error.message
                  step == executedSteps[j]
                  failure == localization.failedWithError.before \o m
              IN /\ step.error = StringValue(m)
                 /\ Contains(summary,
                      <<"U+2022", " ">> \o step.description
                        \o <<"\n", " ", " ", "U+26A0", "U+FE0F", " ">>
                        \o failure)
                 /\ Contains(overview,
                      <<"-", " ">> \o step.id \o <<" ", "(", step.tool, ")">>
                        \o <<"\n", " ", " ">> \o localization.descriptionLabel
                        \o <<":", " ">> \o step.description
                        \o <<"\n", " ", " ">> \o localization.statusLabel
                        \o <<":", " ">> \o failure)
       /\ Occurrences(summary, <<"U+26A0", "U+FE0F">>) = Len(SelectSeq(ends, RunThrew))
       /\ Occurrences(overview, localization.completedSuccessfully)
            = Len(SelectSeq(ends, RunReturned))
       /\ Len(ReturnedSources) = SourcesOfReturned(ends, Len(ends))

(***************************************************************************)
(* C15: the final responder instruction and the summary agree with the     *)
(* collected sources: with k >= 1 sources the summary ends with a source   *)
(* directory block of exactly k lines in marker order and the final        *)
(* instruction lists exactly the markers [1], ..., [k] in order; with no   *)
(* source there is no directory block and the final instruction carries    *)
(* the no-sources caveat instead.                                          *)
(***************************************************************************)
\* the lines of a text
RECURSIVE SplitLines(_)
SplitLines(text) ==
  LET breaks == {p \in 1..Len(text) : text[p] = "\n"}
  IN IF breaks = {} THEN <<text>>
     ELSE LET p == CHOOSE q \in breaks : \A r \in breaks : q <= r
          IN <<SubSeq(text, 1, p - 1)>>
               \o SplitLines(SubSeq(text, p + 1, Len(text)))

MarkerText(n) == <<"[">> \o NumToStr(n) \o <<"]">>

\* the numbers of the markers written in a text, in reading order
RECURSIVE MarkersFrom(_, _)
MarkersFrom(text, p) ==
  IF p > Len(text) THEN <<>>
  ELSE IF text[p] # "[" THEN MarkersFrom(text, p + 1)
  ELSE LET here == {n \in 1..Len(text) : StartsWithAt(text, MarkerText(n), p)}
       IN IF here = {} THEN MarkersFrom(text, p + 1)
          ELSE LET n == CHOOSE m \in here : TRUE
               IN <<n>> \o MarkersFrom(text, p + Len(MarkerText(n)))

\* the text that follows the first occurrence of sub
After(text, sub) ==
  LET p == CHOOSE q \in 1..Len(text) :
             /\ StartsWithAt(text, sub, q)
             /\ \A r \in 1..(q - 1) : ~StartsWithAt(text, sub, r)
  IN SubSeq(text, p + Len(sub), Len(text))

IsFullOutput ==
  /\ pc = "done"
  /\ outcome.status = "returned"
  /\ outcome.value.toolCallMessages # <<>>

C15_SourcesAgree ==
  IsFullOutput =>
    LET localization == getLocalization(Language)
        summary == outcome.value.toolCallMessages[2].content
        instruction == outcome.value.toolCallMessages[3].content
        k == Len(ReturnedSources)
        blockStart == <<"\n", "\n">> \o localization.sourcesDirectoryHeading
                        \o <<":", "\n">>
    IN IF k = 0
       THEN /\ ~Contains(summary, localization.sourcesDirectoryHeading)
            /\ Contains(instruction, localization.noSourcesInstruction)
            /\ MarkersFrom(instruction, 1) = <<>>
       ELSE /\ Occurrences(summary, blockStart) = 1
            /\ LET lines == SplitLines(After(summary, blockStart))
               IN /\ Len(lines) = k
                  /\ \A i \in 1..k :
                       /\ StartsWithAt(lines[i], MarkerText(i) \o <<" ">>, 1)
                       /\ MarkersFrom(lines[i], 1) = <<i>>
            /\ MarkersFrom(instruction, 1) = [i \in 1..k |-> i]
            /\ ~Contains(instruction, localization.noSourcesInstruction)

\* two planned runs that returned two results each
C15_Witness ==
  /\ IsFullOutput
  /\ OnPlannedPath
  /\ Len(ReturnedSources) = 4

(***************************************************************************)
(* C16: an invocation that fails parameter validation (search or           *)
(* videoSearch without a query, retrieve without a url) or whose tool is   *)
(* 'none' or unknown is skipped without error: no event is written for it, *)
(* the tool is never run for it, no executed step is recorded for it, and  *)
(* the remaining invocations are still processed; an invocation            *)
(* {tool: retrieve, parameters: {url}} passes.                             *)
(***************************************************************************)
HasText(parameters, key) ==
  /\ key \in DOMAIN parameters
  /\ parameters[key] \notin {NullValue, UndefinedValue}

\* the invocations the claim lets through
Passes(invocation) ==
  \/ invocation.tool \in {"search", "videoSearch"}
       /\ HasText(invocation.parameters, "query")
  \/ invocation.tool = "retrieve" /\ HasText(invocation.parameters, "url")

C16_InvalidInvocationIsSkipped ==
  (pc = "done" /\ PlannerReturned) =>
    LET passing == SelectSeq(toolPlan.toolInvocations, Passes)
        calls == CallWrites
        starts == RunStarts
    IN /\ outcome.status = "returned"
       /\ Len(calls) = Len(passing)
       /\ Len(starts) = Len(passing)
       /\ Len(executedSteps) = Len(passing)
       /\ SearchStarts = <<>>
       /\ \A j \in 1..Len(passing) :
            /\ calls[j].entry.annotation.data.toolName = passing[j].tool
            /\ calls[j].entry.annotation.data.description
                 = passing[j].description
            /\ starts[j].entry.tool = passing[j].tool
            /\ executedSteps[j].id = passing[j].id
            /\ executedSteps[j].tool = passing[j].tool

\* a rejected invocation, then {tool: retrieve, parameters: {url}}
C16_Witness ==
  /\ pc = "done"
  /\ PlannerReturned
  /\ Len(toolPlan.toolInvocations) = 2
  /\ ~Passes(toolPlan.toolInvocations[1])
  /\ toolPlan.toolInvocations[1].tool = "search"
  /\ toolPlan.toolInvocations[2].tool = "retrieve"
  /\ DOMAIN toolPlan.toolInvocations[2].parameters = {"url"}
  /\ Len(executedSteps) = 1

(***************************************************************************)
(* C17: every result of executeToolCall is either the empty pair           *)
(* (annotation null and zero messages) or a full output (annotation        *)
(* non-null and exactly three messages with roles assistant, assistant,    *)
(* user, in the order overview, summary, final instruction); the           *)
(* annotation is null if and only if the message list is empty, on the     *)
(* planned path and on the fallback path alike.                            *)
(***************************************************************************)
C17_EmptyOrThreeMessages ==
  (pc = "done" /\ outcome.status = "returned") =>
    LET annotation == outcome.value.toolCallDataAnnotation
        messages == outcome.value.toolCallMessages
        localization == getLocalization(Language)
    IN /\ (annotation = NullValue) <=> (messages = <<>>)
       /\ messages # <<>> =>
            /\ Len(messages) = 3
            /\ <<messages[1].role, messages[2].role, messages[3].role>>
                 = <<"assistant", "assistant", "user">>
            /\ Contains(messages[1].content,
                        localization.executedRunsHeading \o <<":">>)
            /\ StartsWithAt(messages[2].content,
                            localization.researchSummaryHeading \o <<":">>, 1)
            /\ \/ Contains(messages[3].content,
                           localization.noSourcesInstruction)
               \/ Contains(messages[3].content,
                           localization.useSourcesInstruction.before)
            /\ annotation.role = "data"
            /\ annotation.content.data.state = "result"

\* a full output of the fallback path
C17_Witness ==
  /\ pc = "done"
  /\ outcome.status = "returned"
  /\ SearchEnds # <<>>
  /\ Len(outcome.value.toolCallMessages) = 3
  /\ outcome.value.toolCallDataAnnotation # NullValue

(***************************************************************************)
(* C18: on the fallback path the single search emits the same event pair   *)
(* as a planned tool run: every 'call' event written by fallbackSearch is  *)
(* followed by a 'result' event with the same toolCallId carrying either   *)
(* the serialized result or the error message, whether the search returns  *)
(* or throws.                                                              *)
(***************************************************************************)
C18_FallbackCallHasResult ==
  (pc = "done" /\ SearchStarts # <<>>) =>
    LET calls == CallWrites
        results == ResultWrites
    IN \A i \in 1..Len(calls) :
         \E j \in 1..Len(results) :
           /\ results[j].pos > calls[i].pos
           /\ ToolCallIdOf(results[j]) = ToolCallIdOf(calls[i])
           /\ \/ "result" \in DOMAIN results[j].entry.annotation.data
              \/ "error" \in DOMAIN results[j].entry.annotation.data

(***************************************************************************)
(* C19: detectLanguageFromText resolves competing signals by a fixed       *)
(* priority: Cyrillic gives ru, else a CJK ideograph gives zh, else        *)
(* Hiragana/Katakana gives ja, else Hangul gives ko, else Arabic gives ar, *)
(* and any of these script signals wins over every diacritic or            *)
(* function-word signal in the same text; only when no script signal is    *)
(* present are the Portuguese/French/Italian diacritic checks and then the *)
(* pt, it, fr, de, es word checks applied, in that order.                  *)
(***************************************************************************)
\* the signals of a text, strongest first; each names the tag it gives
Signals(text) ==
  LET cps == CodePoints(text)
  IN << [tag |-> "ru", present |-> HasCyrillic(cps)],
        [tag |-> "zh", present |-> HasCJK(cps)],
        [tag |-> "ja", present |-> HasKana(cps)],
        [tag |-> "ko", present |-> HasHangul(cps)],
        [tag |-> "ar", present |-> HasArabic(cps)],
        [tag |-> "pt", present |-> HasPortugueseDiacritic(cps)],
        [tag |-> "fr", present |-> HasAnyOf(cps, FrenchChars)],
        [tag |-> "it", present |-> HasAnyOf(cps, ItalianChars)],
        [tag |-> "pt", present |-> HasWord(cps, PortugueseWords)],
        [tag |-> "it", present |-> HasWord(cps, ItalianWords)],
        [tag |-> "fr", present |-> HasWord(cps, FrenchWords)],
        [tag |-> "de", present |-> HasWord(cps, GermanWords)],
        [tag |-> "es", present |-> HasWord(cps, SpanishWords)] >>

C19_PriorityOrder ==
  dlPc = "detected" =>
    LET signals == Signals(dlText)
    IN \A i \in 1..Len(signals) :
         (signals[i].present /\ \A j \in 1..(i - 1) : ~signals[j].present)
           => dlTag = signals[i].tag

\* a script signal next to a function word and a diacritic of other languages
C19_Witness ==
  /\ dlPc = "detected"
  /\ HasCJK(CodePoints(dlText))
  /\ \/ HasWord(CodePoints(dlText), ItalianWords)
     \/ HasAnyOf(CodePoints(dlText), FrenchChars)
  /\ dlTag = "zh"

(***************************************************************************)
(* C20: detectLanguageFromText is a total function of its text: it always  *)
(* returns exactly one of the eleven supported tags, returns 'en' for the  *)
(* empty text and for text with no matching signal, and getLocalization    *)
(* returns the English bundle for any tag that is not one of the eleven.   *)
(***************************************************************************)
C20_TotalWithEnglishDefault ==
  /\ dlPc = "detected" =>
       /\ dlTag \in SupportedLanguages
       /\ Cardinality(SupportedLanguages) = 11
       /\ dlText = <<>> => dlTag = "en"
       /\ LET signals == Signals(dlText)
          IN (\A i \in 1..Len(signals) : ~signals[i].present)
               => dlTag = "en"
  /\ dlPc = "localized" =>
       /\ dlRequested \notin SupportedLanguages
            => dlBundle = LOCALIZATIONS["en"]
       /\ dlRequested \in SupportedLanguages
            => dlBundle = LOCALIZATIONS[dlRequested]

\* the English bundle returned for an unrecognized tag
C20_Witness ==
  /\ dlPc = "localized"
  /\ dlRequested = "pt-BR"
  /\ dlBundle = LOCALIZATIONS["en"]
  /\ dlText # <<>>
  /\ dlTag = "en"


(***************************************************************************)
(* Base URL resolution.                                                    *)
(***************************************************************************)
CarriesNoHeader(source) ==
  source.kind # "headers" \/ \A name \in HeaderNames : source.v[name] = <<>>

\* neither the caller nor the request supplies a header
NoUsableHeaders(call, env) ==
  /\ CarriesNoHeader(call.providedHeaders)
  /\ CarriesNoHeader(call.next) \/ isStaticGenerationPhase(env)

First(a, b) == IF a # <<>> THEN a ELSE b

\* the URL the environment alone determines
FromEnvironment(env) ==
  LET candidates ==
        ParseCandidates(First(env.NEXT_PUBLIC_BASE_URL, env.BASE_URL))
      configured ==
        Trim(First(env.NEXT_PUBLIC_VERCEL_URL, env.VERCEL_URL))
      deployment == IF configured = <<>> THEN UndefinedValue
                    ELSE NewURL(DeploymentCandidate(configured))
  IN IF candidates # <<>> THEN candidates[1]
     ELSE IF deployment # UndefinedValue THEN deployment
     ELSE Url("http", "localhost", "3000", "/")

C22_ExplicitHeaderWins ==
  (urlPc = "returned" /\ urlCall.op = "getBaseUrlFromHeaders"
     /\ urlCall.providedHeaders.kind = "headers")
  => LET explicit ==
           NewURL(takePrimaryHeaderValue(urlCall.providedHeaders.v["x-base-url"]))
     IN explicit # UndefinedValue => urlCall.value = explicit

C22_Witness ==
  /\ urlPc = "returned" /\ urlCall.op = "getBaseUrlFromHeaders"
  /\ urlCall.providedHeaders.kind = "headers"
  /\ urlCall.providedHeaders.v["x-base-url"] = HeaderUrl
  /\ urlCall.providedHeaders.v["host"] = <<"example.test">>
  /\ urlEnv.VERCEL_URL = <<"header.example">>
  /\ UrlToString(urlCall.value) = HeaderUrl

\* the value a call returns when nothing is memoised
Derived(call, env) ==
  IF call.op = "getBaseUrl"
  THEN getBaseUrl(call.providedHeaders, call.next, env, EmptyCache).value
  ELSE getBaseUrlString(call.providedHeaders, call.next, env, EmptyCache).value

\* C23: the first getBaseUrl or getBaseUrlString call after
\* resetBaseUrlCache returns the URL derived from the environment as it is
\* at that call, whatever was memoised before the reset.
C23_ResetRereadsEnvironment ==
  [][(urlFresh /\ urlPc' = "returned"
        /\ urlCall'.op \in {"getBaseUrl", "getBaseUrlString"})
     => urlCall'.value = Derived(urlCall', urlEnv')]_vars

C23_Witness ==
  /\ urlPc = "returned" /\ urlCall.op = "getBaseUrlString" /\ urlCall.fresh
  /\ urlCalls = 2
  /\ urlEnv.NEXT_PUBLIC_BASE_URL = SecondaryUrl
  /\ urlCall.providedHeaders = NoHeaders
  /\ urlCall.value = SecondaryUrl \o <<"/">>


(***************************************************************************)
(* Domain lists.                                                           *)
(***************************************************************************)
IsListInput == ndInput.kind \in {"string", "array"}

\* an entry as the claim describes it: trimmed, not empty, lower-cased,
\* with no scheme in front and no path behind
IsCleanEntry(entry) ==
  /\ entry # <<>>
  /\ Trim(entry) = entry
  /\ LowerEntry(entry) = entry
  /\ StripScheme(entry) = entry
  /\ \A p \in 1..Len(entry) : entry[p] \notin PathStarts

\* C25: normaliseDomainList returns, for a string or an array, trimmed
\* non-empty lower-cased entries without scheme, path or duplicates, returns
\* [] for any other input, and applied to its own output returns that
\* output unchanged.
C25_CleanAndIdempotent ==
  ndPc = "twice"
  => /\ \A i \in 1..Len(ndOnce) : IsCleanEntry(ndOnce[i])
     /\ \A i, j \in 1..Len(ndOnce) : ndOnce[i] = ndOnce[j] => i = j
     /\ ~IsListInput => ndOnce = <<>>
     /\ ndTwice = ndOnce


(***************************************************************************)
(* Domain configuration.                                                   *)
(***************************************************************************)
IsBlank(text) == \A p \in 1..Len(text) : text[p] \in WhitespaceChars

\* the value of a setting: the server variable, or its public counterpart
\* when the server variable is unset or blank, or nothing
Setting(env, name) ==
  IF ~IsBlank(env[name]) THEN env[name]
  ELSE IF ~IsBlank(env["NEXT_PUBLIC_" \o name]) THEN env["NEXT_PUBLIC_" \o name]
  ELSE <<>>

NothingSet(env) == \A name \in DomainEnvNames : env[name] = <<>>

\* C24: a configuration built by getDomainConfiguration takes each setting
\* from the server variable, and from the NEXT_PUBLIC_ variable only when
\* the server variable is unset or blank; with no variable set the lists
\* are empty and the instructions undefined, and appendDomainInstructions
\* returns its prompt unchanged.
C24_ServerVariableFirst ==
  (domPc = "returned" /\ domCall.built)
  => /\ domCache.defaultIncludeDomains =
          parseListFromString(Setting(domEnv, "DEFAULT_INCLUDE_DOMAINS"))
     /\ domCache.defaultExcludeDomains =
          parseListFromString(Setting(domEnv, "DEFAULT_EXCLUDE_DOMAINS"))
     /\ domCache.agentInstructions =
          Optional(Trim(Setting(domEnv, "DOMAIN_AGENT_INSTRUCTIONS")))
     /\ domCall.op = "getDomainConfiguration" => domCall.value = domCache
     /\ NothingSet(domEnv)
        => /\ domCache.defaultIncludeDomains = <<>>
           /\ domCache.defaultExcludeDomains = <<>>
           /\ domCache.agentInstructions = UndefinedValue
           /\ domCall.op = "appendDomainInstructions"
              => domCall.value = domCall.basePrompt

C24_Witness ==
  /\ domPc = "returned" /\ domCall.built
  /\ domCall.op = "getDomainConfiguration"
  /\ domEnv["DEFAULT_INCLUDE_DOMAINS"] = <<" ">>
  /\ domEnv["NEXT_PUBLIC_DEFAULT_INCLUDE_DOMAINS"] = <<"b.com">>
  /\ domEnv["DEFAULT_EXCLUDE_DOMAINS"] = <<"b.com">>
  /\ domEnv["NEXT_PUBLIC_DEFAULT_EXCLUDE_DOMAINS"] = <<"a.com", "\n", "b.com">>
  /\ domCall.value.defaultIncludeDomains = <<<<"b.com">>>>
  /\ domCall.value.defaultExcludeDomains = <<<<"b.com">>>>


(***************************************************************************)
(* The query of the fallback search.                                       *)
(***************************************************************************)
UserPositions == {i \in 1..Len(coreMessages) : coreMessages[i].role = "user"}

\* the text of a message: its string content, or its text parts joined
TextOfMessage(message) ==
  IF message.content.kind = "string" THEN message.content.text
  ELSE LET parts == message.content.parts
       IN Join(SelectSeq([i \in 1..Len(parts) |-> PartText(parts[i])], Truthy),
               <<"\n">>)

\* the text of the last message of role user; empty when there is none
TextOfLastUserMessage ==
  IF UserPositions = {} THEN <<>>
  ELSE TextOfMessage(
         coreMessages[CHOOSE i \in UserPositions : \A j \in UserPositions : j <= i])

\* C26: the fallback search is run with the text of the last user message
\* only; when that message has no text no search is run and the empty pair
\* is returned, even if an earlier user message has text.
C26_QueryIsLastUserMessage ==
  /\ \A i \in 1..Len(SearchStarts) :
       SearchStarts[i].entry.args["query"] = StringValue(TextOfLastUserMessage)
  /\ TextOfLastUserMessage = <<>> => SearchStarts = <<>>
  /\ (TextOfLastUserMessage = <<>> /\ PlannerThrew /\ pc = "done")
     => outcome = Returned(EmptyPair)


(***************************************************************************)
(* The executed steps.                                                     *)
(***************************************************************************)
\* the step of a validated invocation, but for its result and error
StepOfInvocation(invocation) ==
  LET parsed == parseInvocationParameters(invocation)
  IN [id |-> invocation.id, tool |-> invocation.tool,
      description |-> invocation.description, parameters |-> parsed.parameters]

StepHeader(step) ==
  [id |-> step.id, tool |-> step.tool, description |-> step.description,
   parameters |-> step.parameters]

StepsFollowValidated ==
  OnPlannedPath =>
    LET validated == Validated
        starts == RunStarts
    IN /\ Len(executedSteps) = ValidatedUpTo(LoopDone)
       /\ \A k \in 1..Len(executedSteps) :
            /\ StepHeader(executedSteps[k]) = StepOfInvocation(validated[k])
            /\ executedSteps[k].parameters = starts[k].entry.args

\* a step, once pushed, stays as it is
StepsOnlyAppended ==
  /\ Len(executedSteps') \in {Len(executedSteps), Len(executedSteps) + 1}
  /\ SubSeq(executedSteps', 1, Len(executedSteps)) = executedSteps

\* C27: executedSteps is the sequence of the invocations that passed
\* validation, in plan order, each step pushed once and never changed; its
\* id and description are those of the invocation and its parameters are
\* the validated parameters the tool was run with.
C27_StepsAreValidatedInvocations ==
  []StepsFollowValidated /\ [][StepsOnlyAppended]_vars

C27_Witness ==
  /\ PlannedDone
  /\ Len(invocations) = 2
  /\ ~IsValidated(invocations[1])
  /\ Len(executedSteps) = 1
  /\ executedSteps[1].id = invocations[2].id
  /\ executedSteps[1].parameters # invocations[2].parameters
  /\ executedSteps[1].parameters = RunStarts[1].entry.args


(***************************************************************************)
(* Termination of executeToolCall.                                         *)
(***************************************************************************)
\* the summary is built when every invocation of the list has been handled
\* and every validated one has its step
SummaryAfterTheLoop ==
  (pc = "loop" /\ pc' = "done")
  => /\ index = Len(invocations) + 1
     /\ Len(executedSteps) = Len(Validated)
     /\ Len(RunEnds) = Len(Validated)

AtMostOnePlannerCall == Len(PlannerCalls) <= 1

AtMostOneRunPerInvocation ==
  /\ Len(RunStarts) <= Len(invocations)
  /\ PlannerReturned => Len(invocations) <= Len(toolPlan.toolInvocations)

\* C28: buildExecutionSummary is called only when every validated
\* invocation has a recorded step, and, every awaited planner and tool call
\* returning or throwing, executeToolCall completes after at most one
\* planner call and at most one tool run per invocation of the plan.
C28_CompletesAfterTheLoop ==
  /\ <>(pc = "done")
  /\ [](AtMostOnePlannerCall /\ AtMostOneRunPerInvocation)
  /\ [][SummaryAfterTheLoop]_vars

C28_Witness ==
  /\ PlannedDone
  /\ outcome.status = "returned"
  /\ Len(invocations) = 2
  /\ Len(RunEnds) = 2
  /\ RunEnds[1].entry.outcome.kind = "threw"
  /\ RunEnds[2].entry.outcome.kind = "returned"
  /\ Len(PlannerCalls) = 1


(***************************************************************************)
(* What one step adds to the summary.                                      *)
(***************************************************************************)
Min(a, b) == IF a < b THEN a ELSE b

\* the items of a step's result, as title and address
ResultItems(step) ==
  IF step.result = NullValue THEN <<>>
  ELSE IF step.tool = "videoSearch"
  THEN [i \in 1..Len(step.result.videos) |->
          [title |-> step.result.videos[i].title,
           url |-> step.result.videos[i].link]]
  ELSE [i \in 1..Len(step.result.results) |->
          [title |-> step.result.results[i].title,
           url |-> step.result.results[i].url]]

\* the sources of the summary of the first k steps
SourcesUpTo(k) ==
  buildExecutionSummary(SubSeq(sumSteps, 1, k),
                        getLocalization(sumLanguage)).sources

\* the line a step without items is rendered as
EmptyLine(step, localization) ==
  Bullet(step) \o <<"\n", " ", " ", "U+2013", " ">>
    \o (IF step.tool = "search" THEN localization.noResultsFound
        ELSE IF step.tool = "retrieve" THEN localization.unableToRetrieve
        ELSE localization.noVideosFound)

\* C29: a step without error adds min(3, n) sources when it is a search or a
\* videoSearch with n items and min(1, n) when it is a retrieve, the first
\* items in result order; with no item, or a null result, it adds none and
\* is rendered as the localized empty line of its tool.
C29_SourcesPerStep ==
  sumPc = "summarized" =>
    \A k \in 1..Len(sumSteps) :
      LET step == sumSteps[k]
          items == ResultItems(step)
          count == Min(IF step.tool = "retrieve" THEN 1 ELSE 3, Len(items))
          before == SourcesUpTo(k - 1)
          upTo == SourcesUpTo(k)
      IN ~HasError(step) =>
           /\ Len(upTo) = Len(before) + count
           /\ SubSeq(sumSummary.sources, 1, Len(upTo)) = upTo
           /\ \A i \in 1..count :
                /\ upTo[Len(before) + i].stepId = step.id
                /\ upTo[Len(before) + i].url = items[i].url
                /\ upTo[Len(before) + i].title = items[i].title
           /\ count = 0 =>
                Contains(sumSummary.summary,
                         EmptyLine(step, getLocalization(sumLanguage)))

\* a search with four items adds three sources, a retrieve with two adds one
C29_Witness ==
  /\ sumPc = "summarized"
  /\ Len(sumSteps) = 2
  /\ sumSteps[1].tool = "search"
  /\ Len(ResultItems(sumSteps[1])) = 4
  /\ sumSteps[2].tool = "retrieve"
  /\ Len(ResultItems(sumSteps[2])) = 2
  /\ Len(sumSummary.sources) = 4
  /\ sumSummary.sources[4].url = ResultItems(sumSteps[2])[1].url


(***************************************************************************)
(* The snippet of a listed item.                                           *)
(***************************************************************************)
\* the items a step without error renders with a snippet, and the length
\* their snippet is cut to
SnippetItems(step) ==
  IF HasError(step) \/ step.tool = "videoSearch" \/ NoResults(step.result)
  THEN <<>>
  ELSE IF step.tool = "retrieve" THEN <<step.result.results[1]>>
  ELSE Slice(step.result.results, TopResults)

SnippetLength(step) ==
  IF step.tool = "retrieve" THEN RetrieveSnippetLength
  ELSE SearchSnippetLength

\* the address of an item, the line break and the indentation of its snippet
SnippetStart(item) == item.url \o <<"\n", " ", " ", " ", " ">>

\* C30: the snippet of a search item is its content with every run of
\* whitespace collapsed, cut to at most 160 characters, and the ellipsis
\* follows it if and only if the collapsed content is longer than 160
\* characters; the same with 200 for the item of a retrieve.
C30_EllipsisIffTruncated ==
  sumPc = "summarized" =>
    \A k \in 1..Len(sumSteps) :
      \A i \in 1..Len(SnippetItems(sumSteps[k])) :
        LET item == SnippetItems(sumSteps[k])[i]
            length == SnippetLength(sumSteps[k])
            collapsed == CollapseWhitespace(item.content)
            snippet == Slice(collapsed, length)
        IN /\ Contains(sumSummary.summary, SnippetStart(item) \o snippet)
           /\ Contains(sumSummary.summary,
                       SnippetStart(item) \o snippet \o <<"U+2026">>)
                <=> Len(collapsed) > length


(***************************************************************************)
(* What normalizeToolPlan removes.                                         *)
(***************************************************************************)
PlanEntryStays(entry) == Trim(entry.step) # <<>> /\ Trim(entry.detail) # <<>>

InvocationStays(invocation) ==
  Trim(invocation.description) # <<>> \/ invocation.tool = "none"

\* the positions of the entries that stay, in increasing order
PlanPositions(plan) ==
  SelectSeq([i \in 1..Len(plan) |-> i], LAMBDA i : PlanEntryStays(plan[i]))

InvocationPositions(list) ==
  SelectSeq([i \in 1..Len(list) |-> i], LAMBDA i : InvocationStays(list[i]))

\* the id an invocation at a position of the input starts with
BaseIdAt(rawId, position) ==
  IF Trim(rawId) = <<>> THEN <<"s", "t", "e", "p", "-">> \o NumToStr(position)
  ELSE ReplaceWhitespaceRuns(Trim(rawId))

\* C31: normalizeToolPlan only removes entries: the plan entries and the
\* invocations of its output are those of the input, in input order, left
\* out exactly when a plan entry has an empty step or detail after trimming
\* and when an invocation has an empty trimmed description and a tool other
\* than 'none'.
C31_OnlyRemoves ==
  npPc \in {"once", "twice"} =>
    LET planAt == PlanPositions(npInput.plan)
        invocationAt == InvocationPositions(npInput.toolInvocations)
    IN /\ Len(npOnce.plan) = Len(planAt)
       /\ \A j \in 1..Len(planAt) :
            /\ npOnce.plan[j].step = Trim(npInput.plan[planAt[j]].step)
            /\ npOnce.plan[j].detail = Trim(npInput.plan[planAt[j]].detail)
       /\ Len(npOnce.toolInvocations) = Len(invocationAt)
       /\ \A j \in 1..Len(invocationAt) :
            LET given == npInput.toolInvocations[invocationAt[j]]
                kept == npOnce.toolInvocations[j]
            IN /\ kept.tool = given.tool
               /\ kept.description = Trim(given.description)
               /\ StartsWithAt(kept.id, BaseIdAt(given.id, invocationAt[j]), 1)

\* an undescribed search between a described one and an undescribed 'none'
C31_Witness ==
  /\ npPc = "once"
  /\ Len(npInput.toolInvocations) = 3
  /\ ~InvocationStays(npInput.toolInvocations[2])
  /\ npInput.toolInvocations[1].id = <<>>
  /\ npInput.toolInvocations[3].tool = "none"
  /\ npInput.toolInvocations[3].description = <<>>
  /\ Len(npOnce.toolInvocations) = 2
  /\ npOnce.toolInvocations[2].tool = "none"

\* a plan whose middle entry has a blank detail
C31_PlanWitness ==
  /\ npPc = "once"
  /\ Len(npInput.plan) = 3
  /\ Len(npOnce.plan) = 2
  /\ npOnce.plan[2].detail = <<"u">>


(***************************************************************************)
(* The ids normalizeToolPlan gives.                                        *)
(***************************************************************************)
\* how many invocations of the input, up to a position, have the base id of
\* the one at that position
OccurrenceAt(list, position) ==
  Cardinality({q \in 1..position :
                 BaseIdAt(list[q].id, q) = BaseIdAt(list[position].id, position)})

\* C32: every id of normalizeToolPlan's output is non-empty and holds no
\* whitespace; the base id of a blank input id is step-<n>, n the position
\* of the invocation in the input list; the first invocation with a base id
\* keeps it and the k-th one with the same base id gets the suffix -k.
C32_IdsNormalized ==
  npPc \in {"once", "twice"} =>
    LET given == npInput.toolInvocations
        invocationAt == InvocationPositions(given)
    IN \A j \in 1..Len(npOnce.toolInvocations) :
         LET id == npOnce.toolInvocations[j].id
             position == invocationAt[j]
             baseId == BaseIdAt(given[position].id, position)
             k == OccurrenceAt(given, position)
         IN /\ id # <<>>
            /\ \A p \in 1..Len(id) : ~IsSpace(id[p])
            /\ id = IF k = 1 THEN baseId
                    ELSE baseId \o <<"-">> \o NumToStr(k)

\* a repeated id and a blank id in one list
C32_Witness ==
  /\ npPc = "once"
  /\ Len(npOnce.toolInvocations) = 3
  /\ npInput.toolInvocations[3].id = <<>>
  /\ npOnce.toolInvocations[1].id = <<"a", "-", "b">>
  /\ npOnce.toolInvocations[2].id = <<"a", "-", "b", "-", "2">>
  /\ npOnce.toolInvocations[3].id = <<"s", "t", "e", "p", "-", "3">>


(***************************************************************************)
(* The final instruction of a planned execution.                           *)
(***************************************************************************)
\* the instruction the responder is to get for the planner's instruction
ResolvedInstruction(instruction, language) ==
  IF Trim(instruction) = <<>>
     \/ Trim(instruction) = DEFAULT_FINAL_RESPONSE_INSTRUCTION
  THEN getLocalization(language).defaultFinalInstruction
  ELSE Trim(instruction)

PayloadOf(output) == output.toolCallDataAnnotation.content.data.result.json

\* C33: normalizeToolPlan replaces a blank finalResponseInstruction by the
\* fixed sentinel and trims any other; the responder gets the localized
\* default instruction when the planner's instruction is blank or the
\* sentinel and the trimmed instruction otherwise, and the final message
\* and the payload of the data annotation carry the same instruction.
C33_InstructionResolved ==
  /\ insPc \in {"normalized", "responded"} =>
       insNormalized.finalResponseInstruction =
         IF Trim(insPlan.finalResponseInstruction) = <<>>
         THEN DEFAULT_FINAL_RESPONSE_INSTRUCTION
         ELSE Trim(insPlan.finalResponseInstruction)
  /\ insPc = "responded" =>
       LET resolved == ResolvedInstruction(insPlan.finalResponseInstruction,
                                          insLanguage)
           messages == insOutput.toolCallMessages
       IN /\ PayloadOf(insOutput).finalResponseInstruction = resolved
          /\ StartsWithAt(messages[Len(messages)].content,
                          resolved \o <<"\n", "\n">>, 1)
          /\ messages[Len(messages)].role = "user"

\* a padded sentinel answered in Japanese
C33_Witness ==
  /\ insPc = "responded"
  /\ insLanguage = "ja"
  /\ insPlan.finalResponseInstruction # DEFAULT_FINAL_RESPONSE_INSTRUCTION
  /\ insNormalized.finalResponseInstruction = DEFAULT_FINAL_RESPONSE_INSTRUCTION
  /\ Trim(insPlan.finalResponseInstruction) # <<>>
  /\ PayloadOf(insOutput).finalResponseInstruction =
       Phrase("defaultFinalInstruction", "ja")


(***************************************************************************)
(* The language of the returned messages.                                  *)
(***************************************************************************)
\* the names of the localized labels
LabelKeys == DOMAIN LOCALIZATIONS["en"]

\* every label of a text is the one of the bundle of a language
LabelsFrom(text, language) ==
  \A p \in 1..Len(text) :
    text[p] \in LabelKeys => p < Len(text) /\ text[p + 1] = language

\* C34: the language of a request is detected from the last user text of
\* the conversation the call was given, and every localized label of the
\* messages the call returns, on the planned path and on the fallback path,
\* is the one of the bundle of that language.
C34_OneLanguage ==
  IsFullOutput =>
    LET language == detectLanguageFromText(LastUserText)
        messages == outcome.value.toolCallMessages
    IN /\ \A i \in 1..Len(messages) : LabelsFrom(messages[i].content, language)
       /\ Contains(messages[1].content,
                   Phrase("executedRunsHeading", language))

\* a fallback search answered in Russian
C34_Witness ==
  /\ IsFullOutput
  /\ index = 0
  /\ SearchEnds # <<>>
  /\ detectLanguageFromText(LastUserText) = "ru"
  /\ Contains(outcome.value.toolCallMessages[3].content,
              Phrase("fallbackResponderInstruction", "ru"))

\* a planned execution answered in Russian
C34_PlannedWitness ==
  /\ IsFullOutput
  /\ PlannedDone
  /\ RunEnds # <<>>
  /\ Contains(outcome.value.toolCallMessages[1].content,
              Phrase("plannedApproachHeading", "ru"))


C35_PlannedWitness ==
  /\ pc = "done"
  /\ RunEnds # <<>>
  /\ RunEnds[1].entry.outcome.kind = "threw"
  /\ SearchStarts = <<>>


(***************************************************************************)
(* A planned execution whose runs all failed.                              *)
(***************************************************************************)
AllRunsThrew ==
  /\ RunEnds # <<>>
  /\ Len(RunEnds) = Len(RunStarts)
  /\ \A j \in 1..Len(RunEnds) : RunThrew(RunEnds[j])

\* C36: when at least one planned invocation was run and every run failed,
\* the call returns the planned output and makes no search call: the sources
\* list is empty, the final instruction carries the no-sources caveat, and
\* every step is marked failed, in the summary by the warning line and in
\* the overview by a status that is never 'completed successfully'.
C36_AllFailedStaysPlanned ==
  (PlannedDone /\ AllRunsThrew) =>
    /\ IsFullOutput
    /\ IsPlannedOutput(outcome.value)
    /\ SearchStarts = <<>>
    /\ Len(CallWrites) = Len(RunStarts)
    /\ ReturnedSources = <<>>
    /\ LET localization == getLocalization(Language)
           overview == outcome.value.toolCallMessages[1].content
           summary == outcome.value.toolCallMessages[2].content
           instruction == outcome.value.toolCallMessages[3].content
       IN /\ Contains(instruction, localization.noSourcesInstruction)
          /\ Len(executedSteps) = Len(RunEnds)
          /\ Occurrences(summary, <<"U+26A0", "U+FE0F">>) = Len(RunEnds)
          /\ ~Contains(overview, localization.completedSuccessfully)

\* the same, for runs rejected with a message that is not empty
C36_NamedFailuresStayPlanned ==
  (\A j \in 1..Len(RunEnds) :
     RunThrew(RunEnds[j]) =>
       ErrorMessageOf(RunEnds[j].entry.outcome.error) # <<>>)
    => C36_AllFailedStaysPlanned

\* two planned runs, both rejected, and the planned output returned
C36_Witness ==
  /\ PlannedDone
  /\ AllRunsThrew
  /\ Len(RunEnds) = 2
  /\ IsFullOutput
  /\ SearchStarts = <<>>
  /\ ReturnedSources = <<>>


(***************************************************************************)
(* The memo of the domain configuration.                                   *)
(***************************************************************************)
IsConfigurationCall ==
  /\ domPc' = "returned"
  /\ domCall' # NullValue
  /\ domCall'.op = "getDomainConfiguration"

\* C37: getDomainConfiguration is memoised until reset. A call that finds
\* the memo empty (the first call, or the first after a reset) returns the
\* configuration of the environment current at that call and keeps it; every
\* later call returns the kept configuration, whatever the environment has
\* become; and the kept configuration changes only by a reset, which empties
\* it.
C37_MemoisedUntilReset ==
  [][/\ IsConfigurationCall =>
          /\ domCall'.value = domCache'
          /\ IF domCache = UndefinedValue
             THEN domCall'.value = buildDomainConfiguration(domEnv)
             ELSE domCall'.value = domCache
     /\ domEnv' # domEnv => domCache' = domCache
     /\ (domCache # UndefinedValue /\ domCache' # domCache) =>
          /\ domCache' = UndefinedValue
          /\ domPc' = "idle"
          /\ domEnv' = domEnv]_vars

\* a call returned the kept configuration although the environment has
\* changed since it was built
C37_Witness ==
  /\ domPc = "returned"
  /\ domCall.op = "getDomainConfiguration"
  /\ ~domCall.built
  /\ domCall.value = domCache
  /\ domCall.value # buildDomainConfiguration(domEnv)

\* a call that found the memo empty reflects the environment of that call
C37_ResetWitness ==
  /\ domPc = "returned"
  /\ domCall.op = "getDomainConfiguration"
  /\ domCall.built
  /\ domCall.value = buildDomainConfiguration(domEnv)
  /\ domCall.value.agentInstructions # UndefinedValue


(***************************************************************************)
(* The memo of the base-URL candidates.                                    *)
(***************************************************************************)
\* the candidates the current environment value parses to
CurrentCandidates == ParseCandidates(readBaseUrlEnvValue(urlEnv))

\* C38: the memo of the base-URL candidates is never stale. In every state
\* reached by environment changes, calls and resets, the memoised list is
\* the one parsed from the memoised environment value, and a read of the
\* candidates returns the list parsed from the current environment value
\* and leaves that list and that value in the memo.
C38_CandidatesNeverStale ==
  /\ urlCache.cachedBaseUrlCandidates # UndefinedValue =>
       /\ urlCache.cachedBaseUrlEnv # UndefinedValue
       /\ urlCache.cachedBaseUrlCandidates.v =
            ParseCandidates(urlCache.cachedBaseUrlEnv.v)
  /\ LET read == readBaseUrlCandidates(urlEnv, urlCache)
     IN /\ read.value = CurrentCandidates
        /\ read.cache.cachedBaseUrlCandidates = ArrayValue(CurrentCandidates)
        /\ read.cache.cachedBaseUrlEnv =
             StringValue(readBaseUrlEnvValue(urlEnv))

\* after a call and with no reset since, the environment value differs from
\* the memoised one and parses to other candidates than the memoised ones
C38_Witness ==
  /\ urlCalls >= 1
  /\ ~urlFresh
  /\ urlCache.cachedBaseUrlCandidates # UndefinedValue
  /\ urlCache.cachedBaseUrlCandidates.v # <<>>
  /\ urlCache.cachedBaseUrlEnv # StringValue(readBaseUrlEnvValue(urlEnv))
  /\ CurrentCandidates # <<>>
  /\ CurrentCandidates # urlCache.cachedBaseUrlCandidates.v

\* a call has replaced memoised candidates by those of a later environment
C38_RefreshedWitness ==
  /\ urlPc = "returned"
  /\ urlCalls >= 2
  /\ ~urlFresh
  /\ urlCall.op = "getBaseUrl"
  /\ urlCache.cachedBaseUrlCandidates = ArrayValue(CurrentCandidates)
  /\ Len(CurrentCandidates) = 2


(***************************************************************************)
(* getBaseUrl with the caller's headers.                                   *)
(***************************************************************************)
IsGetBaseUrlWithHeaders ==
  /\ urlPc = "returned"
  /\ urlCall.op = "getBaseUrl"
  /\ urlCall.providedHeaders.kind = "headers"

\* the context of the headers the caller provided
ProvidedContext == resolveHeaderContext(urlCall.providedHeaders.v)

\* the positions of the configured candidates whose host or hostname is the
\* request host
MatchingCandidates ==
  LET host == ProvidedContext.host
  IN IF host = UndefinedValue THEN {}
     ELSE {i \in 1..Len(CurrentCandidates) :
             \/ LowerText(HostOf(CurrentCandidates[i])) = host.host
             \/ LowerText(<<CurrentCandidates[i].hostname>>) = host.hostname}

\* the URL of the request host: the protocol of the headers, or http for a
\* local host and https for any other
UrlOfRequestHost ==
  LET host == ProvidedContext.host
      protocol == IF ProvidedContext.protocol # <<>>
                  THEN ProvidedContext.protocol
                  ELSE IF isLocalHostname(host.hostname) THEN <<"http">>
                  ELSE <<"https">>
  IN IF host = UndefinedValue THEN UndefinedValue
     ELSE NewURL(protocol \o <<"://">> \o host.host)

\* C39: getBaseUrl, given headers, returns the first configured candidate
\* whose host or hostname equals the request host of the headers, whatever
\* x-base-url and x-url hold; when no candidate matches it returns the
\* x-base-url / x-url URL; when there is none either it returns the URL
\* built from the request host and the protocol of the headers, https for a
\* non-local and http for a local host when the headers name no protocol.
C39_MatchingCandidateWins ==
  IsGetBaseUrlWithHeaders =>
    IF MatchingCandidates # {}
    THEN LET first == CHOOSE i \in MatchingCandidates :
                        \A j \in MatchingCandidates : i <= j
         IN urlCall.value = NewURL(UrlToString(CurrentCandidates[first]))
    ELSE IF ProvidedContext.directUrl # UndefinedValue
    THEN urlCall.value = ProvidedContext.directUrl
    ELSE UrlOfRequestHost # UndefinedValue =>
           urlCall.value = UrlOfRequestHost

\* a candidate matched the request host and was returned although the
\* headers hold a valid x-base-url naming another URL
C39_Witness ==
  /\ IsGetBaseUrlWithHeaders
  /\ MatchingCandidates # {}
  /\ ProvidedContext.directUrl # UndefinedValue
  /\ urlCall.value # ProvidedContext.directUrl
  /\ urlCall.value.hostname = "example.test"

\* candidates are configured, none matches, and x-base-url is returned
C39_DirectWitness ==
  /\ IsGetBaseUrlWithHeaders
  /\ CurrentCandidates # <<>>
  /\ ProvidedContext.host # UndefinedValue
  /\ MatchingCandidates = {}
  /\ ProvidedContext.directUrl # UndefinedValue
  /\ urlCall.value = ProvidedContext.directUrl

\* no candidate matches, no explicit URL: the URL is built from a local host
\* without a protocol header
C39_LocalWitness ==
  /\ IsGetBaseUrlWithHeaders
  /\ MatchingCandidates = {}
  /\ ProvidedContext.directUrl = UndefinedValue
  /\ ProvidedContext.protocol = <<>>
  /\ UrlOfRequestHost # UndefinedValue
  /\ urlCall.value.protocol = "http"

\* the same for a host that is not local
C39_RemoteWitness ==
  /\ IsGetBaseUrlWithHeaders
  /\ MatchingCandidates = {}
  /\ ProvidedContext.directUrl = UndefinedValue
  /\ ProvidedContext.protocol = <<>>
  /\ UrlOfRequestHost # UndefinedValue
  /\ urlCall.value.protocol = "https"

=============================================================================
